---- MODULE Spec2Model ----
(***************************************************************************)
(* A model of the excel-merger core: the identifier matcher of             *)
(* core/processor.py, the value normalizer of core/normalizer.py and the   *)
(* merge run of core/controller.py.                                        *)
(*                                                                         *)
(* Strings are sequences of characters.  An ASCII character is the         *)
(* one-character string; a Hangul syllable is the string "ko_" followed by *)
(* its romanization (one syllable = one character, as in Python's str).    *)
(* Scores are exact rationals <<numerator, denominator>>.                  *)
(***************************************************************************)
EXTENDS Integers, Sequences, FiniteSets, TLC

-----------------------------------------------------------------------------
(* Rationals *)

Rat(n, d) == <<n, d>>
RatGt(x, y) == x[1] * y[2] > y[1] * x[2]
RatGe(x, y) == x[1] * y[2] >= y[1] * x[2]
RatEq(x, y) == x[1] * y[2] = y[1] * x[2]
Zero == Rat(0, 1)
One == Rat(1, 1)

Min(a, b) == IF a <= b THEN a ELSE b
Max(a, b) == IF a >= b THEN a ELSE b

-----------------------------------------------------------------------------
(* Characters and the str methods the code uses *)

UpperChars == <<"A","B","C","D","E","F","G","H","I","J","K","L","M",
                "N","O","P","Q","R","S","T","U","V","W","X","Y","Z">>
LowerChars == <<"a","b","c","d","e","f","g","h","i","j","k","l","m",
                "n","o","p","q","r","s","t","u","v","w","x","y","z">>

IsUpperChar(c) == \E i \in 1..Len(UpperChars) : UpperChars[i] = c
IsLowerChar(c) == \E i \in 1..Len(LowerChars) : LowerChars[i] = c

LowerChar(c) ==
  IF IsUpperChar(c)
  THEN LowerChars[CHOOSE i \in 1..Len(UpperChars) : UpperChars[i] = c]
  ELSE c

UpperChar(c) ==
  IF IsLowerChar(c)
  THEN UpperChars[CHOOSE i \in 1..Len(LowerChars) : LowerChars[i] = c]
  ELSE c

\* the characters \s matches, among those the model uses
WhitespaceChars == {" ", "\t"}
\* the characters \w does not match, among those the model uses
NonWordChars == WhitespaceChars \cup {"-", "(", ")", "[", "]", ".", ",", "/", ":"}
\* the character class of normalize_string: [\s\-_\(\)\[\]\.]
SeparatorChars == WhitespaceChars \cup {"-", "_", "(", ")", "[", "]", "."}

lower(s) == [i \in 1..Len(s) |-> LowerChar(s[i])]
upper(s) == [i \in 1..Len(s) |-> UpperChar(s[i])]

RECURSIVE lstrip(_)
lstrip(s) ==
  IF s # <<>> /\ s[1] \in WhitespaceChars THEN lstrip(Tail(s)) ELSE s

RECURSIVE rstrip(_)
rstrip(s) ==
  IF s # <<>> /\ s[Len(s)] \in WhitespaceChars
  THEN rstrip(SubSeq(s, 1, Len(s) - 1))
  ELSE s

strip(s) == rstrip(lstrip(s))

RECURSIVE RemoveChars(_, _)
RemoveChars(s, chars) ==
  IF s = <<>> THEN <<>>
  ELSE IF s[1] \in chars THEN RemoveChars(Tail(s), chars)
  ELSE <<s[1]>> \o RemoveChars(Tail(s), chars)

\* needle in hay
Contains(hay, needle) ==
  \E i \in 0..(Len(hay) - Len(needle)) : SubSeq(hay, i + 1, i + Len(needle)) = needle

\* set(re.findall(r'\w+', s)): the maximal runs of word characters
RECURSIVE WordsFrom(_, _, _)
WordsFrom(s, i, cur) ==
  IF i > Len(s) THEN (IF cur = <<>> THEN {} ELSE {cur})
  ELSE IF s[i] \in NonWordChars
       THEN (IF cur = <<>> THEN {} ELSE {cur}) \cup WordsFrom(s, i + 1, <<>>)
       ELSE WordsFrom(s, i + 1, Append(cur, s[i]))

Words(s) == WordsFrom(s, 1, <<>>)

-----------------------------------------------------------------------------
(* The identifiers of the model *)

s_Employees == <<"E", "m", "p", "l", "o", "y", "e", "e", "s">>
s_JikWonJeongBo == <<"ko_jik", "ko_won", "ko_jeong", "ko_bo">>
s_employee_info == <<"e", "m", "p", "l", "o", "y", "e", "e", "_", "i", "n", "f", "o">>
s_SaWonJeongBo == <<"ko_sa", "ko_won", "ko_jeong", "ko_bo">>
s_IReum == <<"ko_i", "ko_reum">>
s_BuSeo == <<"ko_bu", "ko_seo">>
s_YeonBong == <<"ko_yeon", "ko_bong">>
s_SeongMyeong == <<"ko_seong", "ko_myeong">>
s_SoSokBuSeo == <<"ko_so", "ko_sok", "ko_bu", "ko_seo">>
s_GeupYeo == <<"ko_geup", "ko_yeo">>
s_name == <<"n", "a", "m", "e">>
s_SeongHam == <<"ko_seong", "ko_ham">>
s_Tim == <<"ko_tim">>
s_BiGo == <<"ko_bi", "ko_go">>

-----------------------------------------------------------------------------
(* ExcelProcessor: the synonym dictionary, in insertion order *)

synonym_dict ==
  <<
    <<<<"ko_i", "ko_reum">>,
      <<<<"ko_seong", "ko_myeong">>, <<"n", "a", "m", "e">>, <<"ko_seong", "ko_ham">>, <<"ko_i", "ko_reum">>>>>>,
    <<<<"ko_seong", "ko_myeong">>,
      <<<<"ko_i", "ko_reum">>, <<"n", "a", "m", "e">>, <<"ko_seong", "ko_ham">>>>>>,
    <<<<"n", "a", "m", "e">>,
      <<<<"ko_i", "ko_reum">>, <<"ko_seong", "ko_myeong">>, <<"ko_seong", "ko_ham">>>>>>,
    <<<<"ko_na", "ko_i">>,
      <<<<"ko_yeon", "ko_ryeong">>, <<"a", "g", "e">>, <<"ko_yeon", "ko_se">>>>>>,
    <<<<"ko_yeon", "ko_ryeong">>,
      <<<<"ko_na", "ko_i">>, <<"a", "g", "e">>, <<"ko_yeon", "ko_se">>>>>>,
    <<<<"a", "g", "e">>,
      <<<<"ko_na", "ko_i">>, <<"ko_yeon", "ko_ryeong">>, <<"ko_yeon", "ko_se">>>>>>,
    <<<<"ko_bu", "ko_seo">>,
      <<<<"ko_bu", "ko_seo", "ko_myeong">>, <<"d", "e", "p", "a", "r", "t", "m", "e", "n", "t">>, <<"ko_so", "ko_sok">>, <<"ko_so", "ko_sok", "ko_bu", "ko_seo">>, <<"ko_tim">>>>>>,
    <<<<"ko_bu", "ko_seo", "ko_myeong">>,
      <<<<"ko_bu", "ko_seo">>, <<"d", "e", "p", "a", "r", "t", "m", "e", "n", "t">>, <<"ko_so", "ko_sok">>, <<"ko_so", "ko_sok", "ko_bu", "ko_seo">>>>>>,
    <<<<"d", "e", "p", "a", "r", "t", "m", "e", "n", "t">>,
      <<<<"ko_bu", "ko_seo">>, <<"ko_bu", "ko_seo", "ko_myeong">>, <<"ko_so", "ko_sok">>, <<"ko_so", "ko_sok", "ko_bu", "ko_seo">>>>>>,
    <<<<"ko_so", "ko_sok", "ko_bu", "ko_seo">>,
      <<<<"ko_bu", "ko_seo">>, <<"ko_bu", "ko_seo", "ko_myeong">>, <<"d", "e", "p", "a", "r", "t", "m", "e", "n", "t">>>>>>,
    <<<<"ko_ip", "ko_sa", "ko_il">>,
      <<<<"ko_ip", "ko_sa", "ko_il", "ko_ja">>, <<"h", "i", "r", "e", "_", "d", "a", "t", "e">>, <<"h", "i", "r", "e", "d", "a", "t", "e">>, <<"ko_ip", "ko_sa", "_", "ko_il">>, <<"ko_chae", "ko_yong", "ko_il">>>>>>,
    <<<<"ko_ip", "ko_sa", "ko_il", "ko_ja">>,
      <<<<"ko_ip", "ko_sa", "ko_il">>, <<"h", "i", "r", "e", "_", "d", "a", "t", "e">>, <<"h", "i", "r", "e", "d", "a", "t", "e">>, <<"ko_ip", "ko_sa", "_", "ko_il">>>>>>,
    <<<<"h", "i", "r", "e", "_", "d", "a", "t", "e">>,
      <<<<"ko_ip", "ko_sa", "ko_il">>, <<"ko_ip", "ko_sa", "ko_il", "ko_ja">>, <<"ko_chae", "ko_yong", "ko_il">>>>>>,
    <<<<"h", "i", "r", "e", "d", "a", "t", "e">>,
      <<<<"ko_ip", "ko_sa", "ko_il">>, <<"ko_ip", "ko_sa", "ko_il", "ko_ja">>, <<"ko_chae", "ko_yong", "ko_il">>>>>>,
    <<<<"ko_yeon", "ko_bong">>,
      <<<<"ko_geup", "ko_yeo">>, <<"s", "a", "l", "a", "r", "y">>, <<"ko_wol", "ko_geup">>, <<"ko_yeon", "ko_bong", "ko_jeong", "ko_bo">>, <<"ko_geup", "ko_ryo">>>>>>,
    <<<<"ko_geup", "ko_yeo">>,
      <<<<"ko_yeon", "ko_bong">>, <<"s", "a", "l", "a", "r", "y">>, <<"ko_wol", "ko_geup">>, <<"ko_geup", "ko_ryo">>>>>>,
    <<<<"s", "a", "l", "a", "r", "y">>,
      <<<<"ko_yeon", "ko_bong">>, <<"ko_geup", "ko_yeo">>, <<"ko_wol", "ko_geup">>, <<"ko_geup", "ko_ryo">>>>>>,
    <<<<"ko_wol", "ko_geup">>,
      <<<<"ko_yeon", "ko_bong">>, <<"ko_geup", "ko_yeo">>, <<"s", "a", "l", "a", "r", "y">>, <<"ko_geup", "ko_ryo">>>>>>,
    <<<<"ko_jik", "ko_won", "ko_jeong", "ko_bo">>,
      <<<<"e", "m", "p", "l", "o", "y", "e", "e", "_", "i", "n", "f", "o">>, <<"e", "m", "p", "l", "o", "y", "e", "e", " ", "i", "n", "f", "o">>, <<"ko_sa", "ko_won", "ko_jeong", "ko_bo">>, <<"ko_jik", "ko_won", " ", "ko_jeong", "ko_bo">>>>>>,
    <<<<"e", "m", "p", "l", "o", "y", "e", "e", "_", "i", "n", "f", "o">>,
      <<<<"ko_jik", "ko_won", "ko_jeong", "ko_bo">>, <<"ko_sa", "ko_won", "ko_jeong", "ko_bo">>, <<"ko_jik", "ko_won", " ", "ko_jeong", "ko_bo">>>>>>,
    <<<<"e", "m", "p", "l", "o", "y", "e", "e", " ", "i", "n", "f", "o">>,
      <<<<"ko_jik", "ko_won", "ko_jeong", "ko_bo">>, <<"ko_sa", "ko_won", "ko_jeong", "ko_bo">>, <<"ko_jik", "ko_won", " ", "ko_jeong", "ko_bo">>>>>>
  >>

-----------------------------------------------------------------------------
(* ExcelProcessor.calculate_similarity and its helpers *)

\* dict lookup: the synonyms stored under key, or <<>> without the key
SynonymsOf(key) ==
  IF \E i \in 1..Len(synonym_dict) : synonym_dict[i][1] = key
  THEN synonym_dict[CHOOSE i \in 1..Len(synonym_dict) : synonym_dict[i][1] = key][2]
  ELSE <<>>

InSeq(x, seq) == \E i \in 1..Len(seq) : seq[i] = x

lowerAll(seq) == [i \in 1..Len(seq) |-> lower(seq[i])]

_check_synonyms(str1, str2) ==
  LET str1_lower == strip(lower(str1))
      str2_lower == strip(lower(str2))
      str_matches(s, i) ==
        \/ Contains(s, lower(synonym_dict[i][1]))
        \/ \E k \in 1..Len(synonym_dict[i][2]) : Contains(s, lower(synonym_dict[i][2][k]))
  IN  IF InSeq(str2_lower, lowerAll(SynonymsOf(str1_lower))) THEN Rat(95, 100)
      ELSE IF InSeq(str1_lower, lowerAll(SynonymsOf(str2_lower))) THEN Rat(95, 100)
      ELSE IF \E i \in 1..Len(synonym_dict) :
                 str_matches(str1_lower, i) /\ str_matches(str2_lower, i)
           THEN Rat(8, 10)
           ELSE Zero

normalize_string(s) == RemoveChars(strip(lower(s)), SeparatorChars)

\* difflib.SequenceMatcher.find_longest_match without junk: the longest block
\* a[i..i+k-1] = b[j..j+k-1], the earliest in a, and then the earliest in b
MatchingBlocks(a, b) ==
  {blk \in (1..Len(a)) \X (1..Len(b)) \X (1..Min(Len(a), Len(b))) :
     /\ blk[1] + blk[3] - 1 <= Len(a)
     /\ blk[2] + blk[3] - 1 <= Len(b)
     /\ SubSeq(a, blk[1], blk[1] + blk[3] - 1) = SubSeq(b, blk[2], blk[2] + blk[3] - 1)}

find_longest_match(a, b) ==
  LET blocks == MatchingBlocks(a, b)
  IN  CHOOSE x \in blocks : \A y \in blocks :
        \/ x[3] > y[3]
        \/ x[3] = y[3] /\ x[1] < y[1]
        \/ x[3] = y[3] /\ x[1] = y[1] /\ x[2] <= y[2]

\* the sum of the sizes of get_matching_blocks()
RECURSIVE MatchedChars(_, _)
MatchedChars(a, b) ==
  IF a = <<>> \/ b = <<>> \/ MatchingBlocks(a, b) = {} THEN 0
  ELSE LET m == find_longest_match(a, b)
       IN  m[3] + MatchedChars(SubSeq(a, 1, m[1] - 1), SubSeq(b, 1, m[2] - 1))
                + MatchedChars(SubSeq(a, m[1] + m[3], Len(a)), SubSeq(b, m[2] + m[3], Len(b)))

\* SequenceMatcher(None, a, b).ratio()
SequenceRatio(a, b) ==
  IF Len(a) + Len(b) = 0 THEN One
  ELSE Rat(2 * MatchedChars(a, b), Len(a) + Len(b))

\* the common words over the words of both sets together
WordSimilarityOverUnion(words1, words2) ==
  Rat(Cardinality(words1 \cap words2), Cardinality(words1 \cup words2))

\* len(common_words) / max(len(words1), len(words2))
word_similarity(words1, words2) ==
  Rat(Cardinality(words1 \cap words2), Max(Cardinality(words1), Cardinality(words2)))

\* basic_similarity * 0.7 + word_similarity * 0.3
Weighted(basic, word) ==
  Rat(7 * basic[1] * word[2] + 3 * word[1] * basic[2], 10 * basic[2] * word[2])

\* calculate_similarity after its test of empty arguments
ScoreOfNonEmpty(str1, str2) ==
  LET normalized_str1 == normalize_string(str1)
      normalized_str2 == normalize_string(str2)
      synonym_score == _check_synonyms(str1, str2)
      shorter_len == Min(Len(normalized_str1), Len(normalized_str2))
      longer_len == Max(Len(normalized_str1), Len(normalized_str2))
      basic_similarity == SequenceRatio(normalized_str1, normalized_str2)
      words1 == Words(lower(str1))
      words2 == Words(lower(str2))
  IN  IF normalized_str1 = normalized_str2 THEN One
      ELSE IF RatGt(synonym_score, Zero) THEN synonym_score
      ELSE IF Contains(normalized_str2, normalized_str1) \/ Contains(normalized_str1, normalized_str2)
           THEN Rat(9 * shorter_len, 10 * longer_len)
      ELSE IF words1 # {} /\ words2 # {}
           THEN Weighted(basic_similarity, word_similarity(words1, words2))
      ELSE basic_similarity

\* calculate_similarity without its test of empty arguments
SimilarityUnguarded(str1, str2) == ScoreOfNonEmpty(str1, str2)

\* if not str1 or not str2: return 0.0
calculate_similarity(str1, str2) ==
  IF str1 = <<>> \/ str2 = <<>> THEN Zero ELSE ScoreOfNonEmpty(str1, str2)

-----------------------------------------------------------------------------
(* The scores of the identifiers of the model, computed once *)

s_Name == <<"N", "a", "m", "e">>
s_Sheet1 == <<"S", "h", "e", "e", "t", "1">>

Identifiers ==
  {s_Employees, s_JikWonJeongBo, s_employee_info, s_SaWonJeongBo, s_Sheet1,
   s_IReum, s_BuSeo, s_YeonBong, s_SeongMyeong, s_SoSokBuSeo, s_GeupYeo,
   s_name, s_Name, s_SeongHam, s_Tim}

\* (@@ makes the table a function held by its values)
SimilarityTable ==
  [p \in Identifiers \X Identifiers |-> calculate_similarity(p[1], p[2])] @@ <<>>

\* self.calculate_similarity(a, b), for identifiers of the model
Similarity(a, b) == SimilarityTable[<<a, b>>]

-----------------------------------------------------------------------------
(* config.py *)

SIMILARITY_THRESHOLD == Rat(6, 10)
COLUMN_SIMILARITY_THRESHOLD == Rat(5, 10)

-----------------------------------------------------------------------------
(* ExcelProcessor.match_sheets, ExcelProcessor.match_columns               *)
(* A dict is a sequence of <<key, value>> pairs in insertion order.        *)

DictKeys(d) == {d[i][1] : i \in 1..Len(d)}
DictValues(d) == {d[i][2] : i \in 1..Len(d)}
DictHas(d, key) == key \in DictKeys(d)
DictGet(d, key) == d[CHOOSE i \in 1..Len(d) : d[i][1] = key][2]
DictSet(d, key, value) ==
  IF DictHas(d, key)
  THEN [i \in 1..Len(d) |-> IF d[i][1] = key THEN <<key, value>> ELSE d[i]]
  ELSE Append(d, <<key, value>>)

\* None, and every other value that `if best_match:` takes for false
None == <<>>

\* best_match = None; best_score = 0
NoMatch == [match |-> None, score |-> Zero]

\* the test with score >= best_score: of candidates with equal scores the
\* last one is kept
BetterOrEqual(target, score, threshold, best) ==
  IF RatGe(score, best.score) /\ RatGe(score, threshold) /\ RatGt(score, Zero)
  THEN [match |-> target, score |-> score]
  ELSE best

\* if score > best_score and score >= threshold:
\*     best_score = score; best_match = target
Better(target, score, threshold, best) ==
  IF RatGt(score, best.score) /\ RatGe(score, threshold)
  THEN [match |-> target, score |-> score]
  ELSE best

\* the inner loop of match_sheets from target j on: the best match
RECURSIVE ScanSheets(_, _, _, _, _)
ScanSheets(ref_sheet, target_sheets, threshold, j, best) ==
  IF j > Len(target_sheets) THEN best.match
  ELSE ScanSheets(ref_sheet, target_sheets, threshold, j + 1,
                  Better(target_sheets[j], Similarity(ref_sheet, target_sheets[j]),
                         threshold, best))

\* a candidate sheet already chosen for another reference sheet is not
\* chosen again
MatchedSheetConsuming(matches, ref_sheet, best_match) ==
  IF best_match # None /\ \A k \in 1..Len(matches) : matches[k][2] # best_match
  THEN DictSet(matches, ref_sheet, best_match)
  ELSE matches

\* if best_match: matches[ref_sheet] = best_match
MatchedSheet(matches, ref_sheet, best_match) ==
  IF best_match # None THEN DictSet(matches, ref_sheet, best_match) ELSE matches

RECURSIVE MatchSheetsFrom(_, _, _, _, _)
MatchSheetsFrom(reference_sheets, target_sheets, threshold, i, matches) ==
  IF i > Len(reference_sheets) THEN matches
  ELSE MatchSheetsFrom(reference_sheets, target_sheets, threshold, i + 1,
         MatchedSheet(matches, reference_sheets[i],
                      ScanSheets(reference_sheets[i], target_sheets, threshold, 1, NoMatch)))

match_sheets(reference_sheets, target_sheets, threshold) ==
  MatchSheetsFrom(reference_sheets, target_sheets, threshold, 1, <<>>)

\* the inner loop of match_columns from target j on: the best match among
\* the targets that are not in used_targets
RECURSIVE ScanColumns(_, _, _, _, _, _)
ScanColumns(ref_col, target_columns, used_targets, threshold, j, best) ==
  IF j > Len(target_columns) THEN best.match
  ELSE ScanColumns(ref_col, target_columns, used_targets, threshold, j + 1,
         IF target_columns[j] \in used_targets
         THEN best
         ELSE Better(target_columns[j], Similarity(ref_col, target_columns[j]),
                     threshold, best))

\* MatchedColumn without used_targets.add(best_match)
MatchedColumnNotConsumed(state, ref_col, best_match) ==
  IF best_match # None
  THEN [matches |-> DictSet(state.matches, ref_col, best_match),
        used_targets |-> state.used_targets]
  ELSE state

\* if best_match: matches[ref_col] = best_match; used_targets.add(best_match)
MatchedColumn(state, ref_col, best_match) ==
  IF best_match # None
  THEN [matches |-> DictSet(state.matches, ref_col, best_match),
        used_targets |-> state.used_targets \cup {best_match}]
  ELSE state

RECURSIVE MatchColumnsFrom(_, _, _, _, _)
MatchColumnsFrom(reference_columns, target_columns, threshold, i, state) ==
  IF i > Len(reference_columns) THEN state.matches
  ELSE MatchColumnsFrom(reference_columns, target_columns, threshold, i + 1,
         MatchedColumn(state, reference_columns[i],
                       ScanColumns(reference_columns[i], target_columns,
                                   state.used_targets, threshold, 1, NoMatch)))

match_columns(reference_columns, target_columns, threshold) ==
  MatchColumnsFrom(reference_columns, target_columns, threshold, 1,
                   [matches |-> <<>>, used_targets |-> {}])


-----------------------------------------------------------------------------
(* The literal strings of controller.py and normalizer.py *)

s_source_file == <<"_", "s", "o", "u", "r", "c", "e", "_", "f", "i", "l", "e">>
s_ChulCheo == <<"ko_chul", "ko_cheo", ":">>
s_WonBon == <<"ko_won", "ko_bon">>
s_Sep == <<";", " ">>
s_SHEET_NAME == <<"S", "H", "E", "E", "T", "_", "N", "A", "M", "E">>
s_ALL_COLUMNS == <<"A", "L", "L", "_", "C", "O", "L", "U", "M", "N", "S">>
s_SiTeuMaeChing == <<"ko_si", "ko_teu", "ko_mae", "ko_ching", "(">>
s_YeolMaeChing == <<"ko_yeol", "ko_mae", "ko_ching", "(">>
s_TekSeuTeuJeongRi == <<"ko_tek", "ko_seu", "ko_teu", "ko_jeong", "ko_ri", "(">>
s_SusJaHyeongSikByeonGyeong == <<"ko_sus", "ko_ja", "ko_hyeong", "ko_sik", "ko_byeon", "ko_gyeong", "(">>
s_NalJjaHyeongSikByeonGyeong == <<"ko_nal", "ko_jja", "ko_hyeong", "ko_sik", "ko_byeon", "ko_gyeong", "(">>
s_Haeng == <<"ko_haeng">>
s_Arrow == <<"->">>
s_Colon == <<":">>
s_Close == <<")">>

-----------------------------------------------------------------------------
(* Cells and data frames                                                   *)
(* A cell is NaN or a string; a frame is its column names and its rows,    *)
(* each row one cell per column.                                           *)

NaN == [k |-> "null"]
Str(s) == [k |-> "str", v |-> s]
isna(cell) == cell.k = "null"
notna(cell) == ~isna(cell)

\* the decimal digits of n >= 0
RECURSIVE Digits(_)
Digits(n) ==
  LET d == <<"0", "1", "2", "3", "4", "5", "6", "7", "8", "9">>
  IN  IF n < 10 THEN <<d[n + 1]>> ELSE Digits(n \div 10) \o <<d[(n % 10) + 1]>>

\* 10 ** n
RECURSIVE Pow10(_)
Pow10(n) == IF n = 0 THEN 1 ELSE 10 * Pow10(n - 1)

\* the digits of n >= 0 in at least width places
RECURSIVE ZeroPadded(_, _)
ZeroPadded(n, width) ==
  IF Len(Digits(n)) >= width THEN Digits(n)
  ELSE <<"0">> \o ZeroPadded(n, width - 1)

RECURSIVE StripTrailingZeros(_)
StripTrailingZeros(s) ==
  IF s # <<>> /\ s[Len(s)] = "0" THEN StripTrailingZeros(SubSeq(s, 1, Len(s) - 1)) ELSE s

\* A float that is the double nearest to a decimal: the sign, the digits and
\* the number of decimal places of that decimal (digits / 10 ** places), in
\* the fewest places.  The floats of the model have at most 4 places and
\* fewer than 10 digits.
RECURSIVE Decimal(_, _, _)
Decimal(neg, digits, places) ==
  IF places > 0 /\ digits % 10 = 0 THEN Decimal(neg, digits \div 10, places - 1)
  ELSE [neg |-> neg, digits |-> digits, places |-> places]
Float(x) == [k |-> "float", v |-> x]
\* An int n
IntCell(n) == [k |-> "int", v |-> n]
\* The int 10 ** 400, an int beyond the range of a float
HugeInt == [k |-> "hugeint"]
\* A datetime at midnight
Datetime(year, month, day) ==
  [k |-> "datetime", v |-> [year |-> year, month |-> month, day |-> day]]

\* repr(x) of a float: the shortest decimal that gives the float back, with
\* at least one decimal place
FloatString(x) ==
  LET fraction == IF x.places = 0 THEN <<>>
                  ELSE StripTrailingZeros(ZeroPadded(x.digits % Pow10(x.places), x.places))
  IN  (IF x.neg THEN <<"-">> ELSE <<>>)
      \o Digits(x.digits \div Pow10(x.places)) \o <<".">>
      \o (IF fraction = <<>> THEN <<"0">> ELSE fraction)

IntString(n) == IF n < 0 THEN <<"-">> \o Digits(-n) ELSE Digits(n)

\* str(datetime): YYYY-MM-DD 00:00:00
DatetimeString(d) ==
  ZeroPadded(d.year, 4) \o <<"-">> \o ZeroPadded(d.month, 2) \o <<"-">>
  \o ZeroPadded(d.day, 2) \o <<" ", "0", "0", ":", "0", "0", ":", "0", "0">>

\* str(value)
str(cell) ==
  IF cell.k = "str" THEN cell.v
  ELSE IF cell.k = "float" THEN FloatString(cell.v)
  ELSE IF cell.k = "int" THEN IntString(cell.v)
  ELSE IF cell.k = "datetime" THEN DatetimeString(cell.v)
  ELSE IF cell.k = "hugeint" THEN [i \in 1..401 |-> IF i = 1 THEN "1" ELSE "0"]
  ELSE <<"n", "a", "n">>

Frame(columns, rows) == [columns |-> columns, rows |-> rows]
HasColumn(df, name) == InSeq(name, df.columns)
ColumnIndex(df, name) == CHOOSE c \in 1..Len(df.columns) : df.columns[c] = name
Column(df, name) == [r \in 1..Len(df.rows) |-> df.rows[r][ColumnIndex(df, name)]]
\* df.empty
empty(df) == Len(df.rows) = 0 \/ Len(df.columns) = 0

\* df[name] = values (one value per row)
SetColumn(df, name, values) ==
  IF HasColumn(df, name)
  THEN Frame(df.columns,
             [r \in 1..Len(df.rows) |->
                [c \in 1..Len(df.columns) |->
                   IF c = ColumnIndex(df, name) THEN values[r] ELSE df.rows[r][c]]])
  ELSE Frame(Append(df.columns, name),
             [r \in 1..Len(df.rows) |-> Append(df.rows[r], values[r])])

\* df[name] = scalar
SetColumnScalar(df, name, value) ==
  SetColumn(df, name, [r \in 1..Len(df.rows) |-> value])

\* df.iloc[r, df.columns.get_loc(name)] = value   (r counts from 0)
SetCell(df, r, name, value) ==
  Frame(df.columns,
        [i \in 1..Len(df.rows) |->
           IF i = r + 1
           THEN [c \in 1..Len(df.columns) |->
                   IF c = ColumnIndex(df, name) THEN value ELSE df.rows[i][c]]
           ELSE df.rows[i]])

\* df.drop(columns=[name])
DropColumn(df, name) ==
  LET keep == SelectSeq([c \in 1..Len(df.columns) |-> c],
                        LAMBDA c : df.columns[c] # name)
  IN  Frame([c \in 1..Len(keep) |-> df.columns[keep[c]]],
            [r \in 1..Len(df.rows) |-> [c \in 1..Len(keep) |-> df.rows[r][keep[c]]]])

\* the columns of pd.concat(dataframes): those of the first frame, then the
\* new ones of each later frame
RECURSIVE ConcatColumns(_, _, _)
ConcatColumns(dataframes, i, columns) ==
  IF i > Len(dataframes) THEN columns
  ELSE ConcatColumns(dataframes, i + 1,
         columns \o SelectSeq(dataframes[i].columns, LAMBDA name : ~InSeq(name, columns)))

RECURSIVE ConcatRows(_, _, _)
ConcatRows(dataframes, i, columns) ==
  IF i > Len(dataframes) THEN <<>>
  ELSE LET df == dataframes[i]
       IN  [r \in 1..Len(df.rows) |->
              [c \in 1..Len(columns) |->
                 IF HasColumn(df, columns[c])
                 THEN df.rows[r][ColumnIndex(df, columns[c])]
                 ELSE NaN]]
           \o ConcatRows(dataframes, i + 1, columns)

\* pd.concat(dataframes, ignore_index=True)
concat(dataframes) ==
  LET columns == ConcatColumns(dataframes, 1, <<>>)
  IN  Frame(columns, ConcatRows(dataframes, 1, columns))

\* df.dropna(how='all'), the index reset
dropna_all(df) ==
  Frame(df.columns,
        SelectSeq(df.rows, LAMBDA row : \E c \in 1..Len(row) : notna(row[c])))

\* df.drop_duplicates(): the first of each group of equal rows is kept
RECURSIVE DropDuplicatesFrom(_, _, _)
DropDuplicatesFrom(rows, i, kept) ==
  IF i > Len(rows) THEN kept
  ELSE DropDuplicatesFrom(rows, i + 1,
         IF InSeq(rows[i], kept) THEN kept ELSE Append(kept, rows[i]))

\* drop_duplicates keeping every row
KeepDuplicates(df) == df

drop_duplicates(df) == Frame(df.columns, DropDuplicatesFrom(df.rows, 1, <<>>))

-----------------------------------------------------------------------------
(* Header detection: _detect_header_row and the grids _analyze_sheet and   *)
(* _analyze_csv_file hand to it. A grid is a sequence of rows of cells;    *)
(* the scores are exact fractions, the grids have at most 100 rows and 50   *)
(* columns.                                                                *)

Half == Rat(1, 2)

\* bool(cell)
Truthy(cell) ==
  IF cell.k = "str" THEN cell.v # <<>>
  ELSE IF cell.k = "int" THEN cell.v # 0
  ELSE cell.k # "null"

\* any(row_data)
any(row_data) == \E c \in 1..Len(row_data) : Truthy(row_data[c])

\* [cell for cell in row_data if cell is not None]
NonEmptyCells(row_data) == SelectSeq(row_data, LAMBDA cell : cell.k # "null")

\* text_ratio * 0.4 + unique_ratio * 0.3 + (1 - empty_ratio) * 0.2
\* + position_score * 0.1
TotalScore(row_data, non_empty_cells, row_idx) ==
  LET text_count == Len(SelectSeq(non_empty_cells, LAMBDA cell : cell.k = "str"))
      unique_values == {non_empty_cells[c] : c \in 1..Len(non_empty_cells)}
      empty_count == Len(row_data) - Len(non_empty_cells)
  IN  Rat(40 * text_count * Len(row_data)
          + 30 * Cardinality(unique_values) * Len(row_data)
          + 20 * (Len(row_data) - empty_count) * Len(non_empty_cells)
          + (10 - row_idx) * Len(non_empty_cells) * Len(row_data),
          100 * Len(non_empty_cells) * Len(row_data))

\* if total_score > best_score: best_score = total_score; best_row = row_idx
BetterRow(best, row_idx, total_score) ==
  IF RatGt(total_score, best.best_score)
  THEN [best_row |-> row_idx, best_score |-> total_score]
  ELSE best

\* one iteration of the loop over the first ten rows
BestAfter(best, row_data, row_idx) ==
  IF ~any(row_data) \/ Len(NonEmptyCells(row_data)) < 2 THEN best
  ELSE BetterRow(best, row_idx, TotalScore(row_data, NonEmptyCells(row_data), row_idx))

RECURSIVE DetectHeaderFrom(_, _, _)
DetectHeaderFrom(data, row_idx, best) ==
  IF row_idx >= Len(data) \/ row_idx >= 10 THEN best
  ELSE DetectHeaderFrom(data, row_idx + 1, BestAfter(best, data[row_idx + 1], row_idx))

\* return best_row if best_score > 0.5 else -1
HeaderOf(best) == IF RatGt(best.best_score, Half) THEN best.best_row ELSE -1

_detect_header_row(data) ==
  IF data = <<>> THEN -1
  ELSE HeaderOf(DetectHeaderFrom(data, 0, [best_row |-> -1, best_score |-> Zero]))

\* the row of _analyze_sheet: None for a cell that is None or a blank str
ProcessedRow(row) ==
  [c \in 1..Len(row) |->
     IF isna(row[c]) \/ (row[c].k = "str" /\ strip(row[c].v) = <<>>) THEN NaN ELSE row[c]]

s_Yeol == <<"ko_yeol">>

\* the header row and the column names of the grid, once the header row is
\* detected (the data types are those of _analyze_data_types)
SheetInfo(data, header_row, named) ==
  [header_row |-> header_row,
   data_start_row |-> header_row + 1,
   columns |-> IF header_row = -1 THEN <<>>
               ELSE [c \in 1..Len(data[header_row + 1]) |->
                       IF named[c] THEN str(data[header_row + 1][c])
                       ELSE s_Yeol \o Digits(c)]]

\* _analyze_sheet of a worksheet, given as the grid of its cell values
_analyze_sheet(worksheet) ==
  LET data == [r \in 1..Len(worksheet) |-> ProcessedRow(worksheet[r])]
      header_row == _detect_header_row(data)
  IN  IF Len(worksheet) = 0 \/ Len(worksheet[1]) = 0 THEN SheetInfo(<<>>, -1, <<>>)
      ELSE SheetInfo(data, header_row,
                     IF header_row = -1 THEN <<>>
                     ELSE [c \in 1..Len(data[header_row + 1]) |->
                             ~isna(data[header_row + 1][c])])

\* _analyze_csv_file of a file, given as the rows csv.reader reads from it:
\* rows of str, an empty str for an empty field
_analyze_csv_file(data) ==
  LET header_row == _detect_header_row(data)
  IN  SheetInfo(data, header_row,
                IF header_row = -1 THEN <<>>
                ELSE [c \in 1..Len(data[header_row + 1]) |->
                        Truthy(data[header_row + 1][c])])

-----------------------------------------------------------------------------
(* DataNormalizer: the text path, the change log, the format standards     *)

\* standard.get(field, default)
Get(standard, field, default) ==
  IF field \in DOMAIN standard THEN standard[field] ELSE default

IsCased(c) == IsUpperChar(c) \/ IsLowerChar(c)
isupper(s) ==
  (\E i \in 1..Len(s) : IsCased(s[i])) /\ (\A i \in 1..Len(s) : ~IsLowerChar(s[i]))
islower(s) ==
  (\E i \in 1..Len(s) : IsCased(s[i])) /\ (\A i \in 1..Len(s) : ~IsUpperChar(s[i]))
istitle(s) ==
  /\ \E i \in 1..Len(s) : IsCased(s[i])
  /\ \A i \in 1..Len(s) :
       LET previous_is_cased == i > 1 /\ IsCased(s[i - 1])
       IN  /\ IsUpperChar(s[i]) => ~previous_is_cased
           /\ IsLowerChar(s[i]) => previous_is_cased
title(s) ==
  [i \in 1..Len(s) |->
     IF i > 1 /\ IsCased(s[i - 1]) THEN LowerChar(s[i]) ELSE UpperChar(s[i])]

\* re.sub(r'\s+', ' ', s)
RECURSIVE CollapseSpaces(_)
CollapseSpaces(s) ==
  IF s = <<>> THEN <<>>
  ELSE IF s[1] \in WhitespaceChars THEN <<" ">> \o CollapseSpaces(lstrip(s))
  ELSE <<s[1]>> \o CollapseSpaces(Tail(s))

\* re.search(r'\s{2,}', s)
HasSpaceRun(s) ==
  \E i \in 1..(Len(s) - 1) : s[i] \in WhitespaceChars /\ s[i + 1] \in WhitespaceChars

ChangeRecord(file_name, sheet_name, row_index, column_name, change_type, original_value, new_value) ==
  [file_name |-> file_name, sheet_name |-> sheet_name, row_index |-> row_index,
   column_name |-> column_name, change_type |-> change_type,
   original_value |-> original_value, new_value |-> new_value]

\* The DataNormalizer object: its list change_logs, and appended, the history
\* of every record appended to change_logs since the run began
Normalizer(change_logs, appended) == [change_logs |-> change_logs, appended |-> appended]

\* self.change_logs.append(log_entry)
_log_change_dict(normalizer, file_name, sheet_name, row_index, column_name, change_type, original_value, new_value) ==
  LET log_entry == ChangeRecord(file_name, sheet_name, row_index, column_name,
                                change_type, original_value, new_value)
  IN  Normalizer(Append(normalizer.change_logs, log_entry),
                 Append(normalizer.appended, log_entry))

\* if trim_whitespace: converted_value = converted_value.strip()
Trimmed(s, trim_whitespace) == IF trim_whitespace THEN strip(s) ELSE s
\* if normalize_spaces: converted_value = re.sub(r'\s+', ' ', converted_value)
Spaced(s, normalize_spaces) == IF normalize_spaces THEN CollapseSpaces(s) ELSE s
Cased(s, case_normalization) ==
  IF case_normalization = "upper" THEN upper(s)
  ELSE IF case_normalization = "lower" THEN lower(s)
  ELSE IF case_normalization = "title" THEN title(s)
  ELSE s

\* the conversion of one text value
ConvertText(value, standard) ==
  Cased(Spaced(Trimmed(str(value), Get(standard, "trim_whitespace", TRUE)),
               Get(standard, "normalize_spaces", TRUE)),
        Get(standard, "case", "none"))

\* one iteration of the loop of _normalize_text: the column and the log
NormalizedValue(acc, idx, value, converted_value, column_name, file_name, sheet_name) ==
  IF isna(value) THEN acc
  ELSE [series |-> [acc.series EXCEPT ![idx + 1] = Str(converted_value)],
        normalizer |->
          IF str(value) # converted_value
          THEN _log_change_dict(acc.normalizer, file_name, sheet_name, idx, column_name,
                                "text_format", value, Str(converted_value))
          ELSE acc.normalizer]

\* _normalize_text from row idx on
RECURSIVE NormalizeTextFrom(_, _, _, _, _, _, _)
NormalizeTextFrom(series, standard, column_name, file_name, sheet_name, idx, acc) ==
  IF idx >= Len(series) THEN acc
  ELSE NormalizeTextFrom(series, standard, column_name, file_name, sheet_name, idx + 1,
         NormalizedValue(acc, idx, series[idx + 1], ConvertText(series[idx + 1], standard),
                         column_name, file_name, sheet_name))

_normalize_text(series, standard, column_name, file_name, sheet_name, normalizer) ==
  NormalizeTextFrom(series, standard, column_name, file_name, sheet_name, 0,
                    [series |-> series, normalizer |-> normalizer])

-----------------------------------------------------------------------------
(* Numbers: float(), round() and _normalize_numbers *)

DigitChars == {"0", "1", "2", "3", "4", "5", "6", "7", "8", "9"}
DigitValue(ch) == CHOOSE n \in 0..9 : Digits(n) = <<ch>>

\* int(s) of a string of digits, from digit i on
RECURSIVE DigitsValue(_, _, _)
DigitsValue(s, i, value) ==
  IF i > Len(s) THEN value ELSE DigitsValue(s, i + 1, 10 * value + DigitValue(s[i]))

\* the conversion raised ValueError or OverflowError, or left converted_value
\* None
ValueError == [error |-> "ValueError"]
OverflowError == [error |-> "OverflowError"]
NotConverted == [error |-> "None"]
IsError(converted_value) == "error" \in DOMAIN converted_value

\* float(s) of a str made of digits, signs, points, blanks and other
\* characters (no exponent, underscore, inf or nan)
float(s) ==
  LET stripped == strip(s)
      signed == stripped # <<>> /\ stripped[1] \in {"-", "+"}
      body == IF signed THEN Tail(stripped) ELSE stripped
      points == SelectSeq(body, LAMBDA ch : ch = ".")
      digits == SelectSeq(body, LAMBDA ch : ch \in DigitChars)
      point == CHOOSE i \in 1..Len(body) : body[i] = "."
  IN  IF digits = <<>> \/ Len(points) > 1 \/ Len(digits) + Len(points) # Len(body)
      THEN ValueError
      ELSE Decimal(signed /\ stripped[1] = "-", DigitsValue(digits, 1, 0),
                   IF points = <<>> THEN 0 ELSE Len(body) - point)

\* 2 ** e modulo m
RECURSIVE PowerOfTwoMod(_, _)
PowerOfTwoMod(e, m) == IF e = 0 THEN 1 % m ELSE (2 * PowerOfTwoMod(e - 1, m)) % m

\* floor(log2(n / d)) for n >= d > 0, and -ceil(log2(d / n)) for 0 < n < d
RECURSIVE Log2Floor(_, _)
Log2Floor(n, d) ==
  IF n >= 2 * d THEN 1 + Log2Floor(n, 2 * d)
  ELSE IF n < d THEN Log2Floor(2 * n, d) - 1
  ELSE 0

\* The double nearest to the decimal x (53 bits, ties to even) compared with
\* x itself: 1 if it is above x, -1 if below, 0 if x is a double.
\* With e the exponent that puts x * 2 ** e into 2 ** 52 .. 2 ** 53, the
\* remainder of digits * 2 ** e by 10 ** places tells which.
DoubleError(x) ==
  LET scale == Pow10(x.places)
      e == 52 - Log2Floor(x.digits, scale)
      t == ((x.digits % (2 * scale)) * PowerOfTwoMod(e, 2 * scale)) % (2 * scale)
      remainder == t % scale
  IN  IF remainder = 0 THEN 0
      ELSE IF 2 * remainder > scale \/ (2 * remainder = scale /\ t >= scale) THEN 1
      ELSE -1

\* round(x, ndigits) of a float: the multiple of 10 ** -ndigits nearest to
\* the double, the even one of two equally near
round(x, ndigits) ==
  LET unit == Pow10(x.places - ndigits)
      quotient == x.digits \div unit
      remainder == x.digits % unit
      up == \/ 2 * remainder > unit
            \/ /\ 2 * remainder = unit
               /\ \/ DoubleError(x) > 0
                  \/ DoubleError(x) = 0 /\ quotient % 2 = 1
  IN  IF x.places <= ndigits THEN x
      ELSE Decimal(x.neg, quotient + (IF up THEN 1 ELSE 0), ndigits)

\* float(value) of a str without its commas, of an int or of a float;
\* None for a value of another type
ConvertNumber(value) ==
  IF value.k = "str" THEN float(RemoveChars(value.v, {","}))
  ELSE IF value.k = "hugeint" THEN OverflowError
  ELSE IF value.k = "int" THEN Decimal(value.v < 0, IF value.v < 0 THEN -value.v ELSE value.v, 0)
  ELSE IF value.k = "float" THEN value.v
  ELSE NotConverted

\* if decimal_places >= 0: converted_value = round(converted_value, decimal_places)
RoundedNumber(converted_value, decimal_places) ==
  IF decimal_places >= 0 THEN round(converted_value, decimal_places) ELSE converted_value

\* the cell and the log once the value is converted
StoredNumber(acc, idx, value, converted_value, column_name, file_name, sheet_name) ==
  [series |-> [acc.series EXCEPT ![idx + 1] = Float(converted_value)],
   normalizer |->
     IF str(value) # FloatString(converted_value)
     THEN _log_change_dict(acc.normalizer, file_name, sheet_name, idx, column_name,
                           "number_format", value, Float(converted_value))
     ELSE acc.normalizer]

\* one iteration of the loop of _normalize_numbers: the column and the log
\* (except (ValueError, TypeError): continue; an OverflowError leaves the function)
NumberValue(acc, idx, value, converted_value, decimal_places, column_name, file_name, sheet_name) ==
  IF IsError(acc) \/ isna(value) THEN acc
  ELSE IF converted_value = OverflowError THEN OverflowError
  ELSE IF IsError(converted_value) THEN acc
  ELSE StoredNumber(acc, idx, value, RoundedNumber(converted_value, decimal_places),
                    column_name, file_name, sheet_name)

\* _normalize_numbers from row idx on
RECURSIVE NormalizeNumbersFrom(_, _, _, _, _, _, _)
NormalizeNumbersFrom(series, decimal_places, column_name, file_name, sheet_name, idx, acc) ==
  IF idx >= Len(series) THEN acc
  ELSE NormalizeNumbersFrom(series, decimal_places, column_name, file_name, sheet_name,
         idx + 1,
         NumberValue(acc, idx, series[idx + 1], ConvertNumber(series[idx + 1]),
                     decimal_places, column_name, file_name, sheet_name))

_normalize_numbers(series, standard, column_name, file_name, sheet_name, normalizer) ==
  NormalizeNumbersFrom(series, Get(standard, "decimal_places", 2), column_name, file_name,
                       sheet_name, 0, [series |-> series, normalizer |-> normalizer])

-----------------------------------------------------------------------------
(* Dates: datetime.strptime, strftime, the serial dates and _normalize_dates *)
(* A format is the sequence of its directives ("%Y", ...) and of its       *)
(* literal characters; a date is its year, month and day (the time of day  *)
(* is not written by any target format).                                    *)

Date(year, month, day) == [year |-> year, month |-> month, day |-> day]

f_Ymd_dash == <<"%Y", "-", "%m", "-", "%d">>
f_Ymd_slash == <<"%Y", "/", "%m", "/", "%d">>
f_mdY_slash == <<"%m", "/", "%d", "/", "%Y">>
f_dmY_slash == <<"%d", "/", "%m", "/", "%Y">>
f_Ymd_dot == <<"%Y", ".", "%m", ".", "%d">>
f_mdY_dot == <<"%m", ".", "%d", ".", "%Y">>
f_dmY_dot == <<"%d", ".", "%m", ".", "%Y">>
f_HMS == <<" ", "%H", ":", "%M", ":", "%S">>
f_Korean_spaced == <<"%Y", "ko_nyeon", " ", "%m", "ko_wol", " ", "%d", "ko_il">>
f_Korean == <<"%Y", "ko_nyeon", "%m", "ko_wol", "%d", "ko_il">>
f_ymd_dash == <<"%y", "-", "%m", "-", "%d">>
f_ymd_slash == <<"%y", "/", "%m", "/", "%d">>
f_mdy_slash == <<"%m", "/", "%d", "/", "%y">>
f_dmy_slash == <<"%d", "/", "%m", "/", "%y">>
f_ymd_dot == <<"%y", ".", "%m", ".", "%d">>
f_mdy_dot == <<"%m", ".", "%d", ".", "%y">>
f_dmy_dot == <<"%d", ".", "%m", ".", "%y">>
f_Ymd == <<"%Y", "%m", "%d">>
f_ymd == <<"%y", "%m", "%d">>
f_BdY == <<"%B", " ", "%d", ",", " ", "%Y">>
f_bdY == <<"%b", " ", "%d", ",", " ", "%Y">>

\* the list date_formats of _normalize_dates
date_formats ==
  <<f_Ymd_dash, f_Ymd_slash, f_mdY_slash, f_dmY_slash,
    f_Ymd_dot, f_mdY_dot, f_dmY_dot,
    f_Ymd_dash \o f_HMS, f_Ymd_slash \o f_HMS,
    f_Ymd_dot \o f_HMS, f_mdY_dot \o f_HMS,
    f_Korean_spaced, f_Korean,
    f_ymd_dash, f_ymd_slash, f_mdy_slash, f_dmy_slash,
    f_ymd_dot, f_mdy_dot, f_dmy_dot,
    f_dmY_dot, f_dmy_dot,
    f_Ymd, f_ymd,
    f_BdY, f_bdY>>

\* the formats _analyze_date_format can make the standard of a column
common_formats == <<f_Ymd_dash, f_Ymd_slash, f_mdY_slash, f_dmY_slash, f_Ymd_dot>>

\* calendar.month_name, in lower case
month_name ==
  <<<<"j", "a", "n", "u", "a", "r", "y">>, <<"f", "e", "b", "r", "u", "a", "r", "y">>,
    <<"m", "a", "r", "c", "h">>, <<"a", "p", "r", "i", "l">>, <<"m", "a", "y">>,
    <<"j", "u", "n", "e">>, <<"j", "u", "l", "y">>, <<"a", "u", "g", "u", "s", "t">>,
    <<"s", "e", "p", "t", "e", "m", "b", "e", "r">>, <<"o", "c", "t", "o", "b", "e", "r">>,
    <<"n", "o", "v", "e", "m", "b", "e", "r">>, <<"d", "e", "c", "e", "m", "b", "e", "r">>>>
\* calendar.month_abbr, in lower case
month_abbr == [m \in 1..12 |-> SubSeq(month_name[m], 1, 3)]

\* year % 4 == 0 and (year % 100 != 0 or year % 400 == 0)
_is_leap(year) == year % 4 = 0 /\ (year % 100 # 0 \/ year % 400 = 0)
_DAYS_IN_MONTH == <<31, 28, 31, 30, 31, 30, 31, 31, 30, 31, 30, 31>>
_days_in_month(year, month) ==
  IF month = 2 /\ _is_leap(year) THEN 29 ELSE _DAYS_IN_MONTH[month]
\* the days of a common year before the first day of month
RECURSIVE _DAYS_BEFORE_MONTH(_)
_DAYS_BEFORE_MONTH(month) ==
  IF month = 1 THEN 0 ELSE _DAYS_BEFORE_MONTH(month - 1) + _DAYS_IN_MONTH[month - 1]
_days_before_month(year, month) ==
  _DAYS_BEFORE_MONTH(month) + (IF month > 2 /\ _is_leap(year) THEN 1 ELSE 0)
\* the days before January 1st of year
_days_before_year(year) ==
  (year - 1) * 365 + (year - 1) \div 4 - (year - 1) \div 100 + (year - 1) \div 400
\* the ordinal of a date, 0001-01-01 being day 1
_ymd2ord(year, month, day) ==
  _days_before_year(year) + _days_before_month(year, month) + day

\* the date of day n (from 0) of the year, month being the estimate of its
\* month: if preceding > n: month -= 1; preceding -= the days of that month
DateInYear(year, month, n, leapyear) ==
  LET preceding == _DAYS_BEFORE_MONTH(month) + (IF month > 2 /\ leapyear THEN 1 ELSE 0)
      before == preceding - (_DAYS_IN_MONTH[month - 1]
                             + (IF month - 1 = 2 /\ leapyear THEN 1 ELSE 0))
  IN  IF preceding > n THEN Date(year, month - 1, n - before + 1)
      ELSE Date(year, month, n - preceding + 1)

\* the date of an ordinal: the years in cycles of 400, 100, 4 and 1 years,
\* then the month estimated as (n + 50) >> 5 and corrected
_ord2ymd(ordinal) ==
  LET n0 == ordinal - 1
      n400 == n0 \div 146097
      r400 == n0 % 146097
      n100 == r400 \div 36524
      r100 == r400 % 36524
      n4 == r100 \div 1461
      r4 == r100 % 1461
      n1 == r4 \div 365
      n == r4 % 365
      year == n400 * 400 + 1 + n100 * 100 + n4 * 4 + n1
  IN  IF n1 = 4 \/ n100 = 4 THEN Date(year - 1, 12, 31)
      ELSE DateInYear(year, (n + 50) \div 32, n, n1 = 3 /\ (n4 # 24 \/ n100 = 3))

\* the characters s[pos .. pos + n - 1] are digits
DigitsAt(s, pos, n) ==
  pos + n - 1 <= Len(s) /\ \A p \in pos..(pos + n - 1) : s[p] \in DigitChars
ValueAt(s, pos, n) == DigitsValue(SubSeq(s, pos, pos + n - 1), 1, 0)

\* one way a directive can match at pos: the characters it takes, its value
Taken(len, value) == [len |-> len, value |-> value]
\* n digits with a value in lo .. hi
DigitsIn(s, pos, n, lo, hi) ==
  IF DigitsAt(s, pos, n) /\ ValueAt(s, pos, n) >= lo /\ ValueAt(s, pos, n) <= hi
  THEN <<Taken(n, ValueAt(s, pos, n))>> ELSE <<>>
\* a blank and a digit from 1 on
BlankDigit(s, pos) ==
  IF pos + 1 <= Len(s) /\ s[pos] = " " /\ DigitsAt(s, pos + 1, 1) /\ ValueAt(s, pos + 1, 1) >= 1
  THEN <<Taken(2, ValueAt(s, pos + 1, 1))>> ELSE <<>>
\* one of the names, whatever the case of its letters
NameIn(s, pos, names) ==
  LET found == SelectSeq([m \in 1..12 |-> m], LAMBDA m :
                 /\ pos + Len(names[m]) - 1 <= Len(s)
                 /\ lower(SubSeq(s, pos, pos + Len(names[m]) - 1)) = names[m])
  IN  [k \in 1..Len(found) |-> Taken(Len(names[found[k]]), found[k])]
\* the whitespace from pos on: every length from the longest down to 1
RECURSIVE WhitespaceRun(_, _)
WhitespaceRun(s, pos) ==
  IF pos <= Len(s) /\ s[pos] \in WhitespaceChars THEN 1 + WhitespaceRun(s, pos + 1) ELSE 0
WhitespaceIn(s, pos) ==
  LET longest == WhitespaceRun(s, pos)
  IN  [k \in 1..longest |-> Taken(longest + 1 - k, 0)]
LiteralIn(s, pos, ch) ==
  IF pos <= Len(s) /\ lower(<<s[pos]>>) = lower(<<ch>>) THEN <<Taken(1, 0)>> ELSE <<>>

\* the alternatives of the regular expression of a directive or a literal,
\* in the order the matcher tries them
Alternatives(token, s, pos) ==
  IF token = "%Y" THEN DigitsIn(s, pos, 4, 0, 9999)
  ELSE IF token = "%y" THEN DigitsIn(s, pos, 2, 0, 99)
  ELSE IF token = "%m" THEN DigitsIn(s, pos, 2, 1, 12) \o DigitsIn(s, pos, 1, 1, 9)
  ELSE IF token = "%d"
  THEN DigitsIn(s, pos, 2, 1, 31) \o DigitsIn(s, pos, 1, 1, 9) \o BlankDigit(s, pos)
  ELSE IF token = "%H" THEN DigitsIn(s, pos, 2, 0, 23) \o DigitsIn(s, pos, 1, 0, 9)
  ELSE IF token = "%M" THEN DigitsIn(s, pos, 2, 0, 59) \o DigitsIn(s, pos, 1, 0, 9)
  ELSE IF token = "%S" THEN DigitsIn(s, pos, 2, 0, 61) \o DigitsIn(s, pos, 1, 0, 9)
  ELSE IF token = "%B" THEN NameIn(s, pos, month_name)
  ELSE IF token = "%b" THEN NameIn(s, pos, month_abbr)
  ELSE IF token \in WhitespaceChars THEN WhitespaceIn(s, pos)
  ELSE LiteralIn(s, pos, token)

\* the fields found so far with the value of one more directive
WithField(fields, token, value) ==
  IF token = "%Y" THEN [fields EXCEPT !.year = value]
  ELSE IF token = "%y"
  THEN [fields EXCEPT !.year = IF value <= 68 THEN 2000 + value ELSE 1900 + value]
  ELSE IF token \in {"%m", "%B", "%b"} THEN [fields EXCEPT !.month = value]
  ELSE IF token = "%d" THEN [fields EXCEPT !.day = value]
  ELSE IF token = "%S" THEN [fields EXCEPT !.second = value]
  ELSE fields

NoMatchAt == [matched |-> FALSE]
OrElse(found, otherwise) == IF found.matched THEN found ELSE otherwise

\* the match of the format from token i on at pos: the first one in the order
\* of the alternatives that matches every token
RECURSIVE MatchFrom(_, _, _, _, _)
RECURSIVE TryFrom(_, _, _, _, _, _, _)
MatchFrom(s, pos, fmt, i, fields) ==
  IF i > Len(fmt) THEN [matched |-> TRUE, end |-> pos, fields |-> fields]
  ELSE TryFrom(s, pos, fmt, i, fields, Alternatives(fmt[i], s, pos), 1)
TryFrom(s, pos, fmt, i, fields, alternatives, a) ==
  IF a > Len(alternatives) THEN NoMatchAt
  ELSE OrElse(MatchFrom(s, pos + alternatives[a].len, fmt, i + 1,
                        WithField(fields, fmt[i], alternatives[a].value)),
              TryFrom(s, pos, fmt, i, fields, alternatives, a + 1))

\* datetime.strptime(date_string, fmt): ValueError if the format does not
\* match, if data remains, or if the fields are no date
Parsed(found, length) ==
  IF ~found.matched THEN ValueError
  ELSE IF found.end # length + 1 THEN ValueError
  ELSE IF \/ found.fields.year < 1
          \/ found.fields.second > 59
          \/ found.fields.day > _days_in_month(found.fields.year, found.fields.month)
  THEN ValueError
  ELSE Date(found.fields.year, found.fields.month, found.fields.day)
strptime(date_string, fmt) ==
  Parsed(MatchFrom(date_string, 1, fmt, 1,
                   [year |-> 1900, month |-> 1, day |-> 1, second |-> 0]),
         Len(date_string))

\* The C library's strftime writes the year of %Y: glibc as the number is
\* (year 5 as "5"), other libraries with four digits ("0005"). Python hands
\* %Y to the library it was built with.
VARIABLE pads_year

\* the library's strftime, one that pads the year if pads
RECURSIVE Formatted(_, _, _)
Formatted(date, fmt, pads) ==
  IF fmt = <<>> THEN <<>>
  ELSE (IF fmt[1] = "%Y" THEN (IF pads THEN ZeroPadded(date.year, 4) ELSE IntString(date.year))
        ELSE IF fmt[1] = "%y" THEN ZeroPadded(date.year % 100, 2)
        ELSE IF fmt[1] = "%m" THEN ZeroPadded(date.month, 2)
        ELSE IF fmt[1] = "%d" THEN ZeroPadded(date.day, 2)
        ELSE IF fmt[1] \in {"%H", "%M", "%S"} THEN <<"0", "0">>
        ELSE IF fmt[1] = "%B" THEN title(month_name[date.month])
        ELSE IF fmt[1] = "%b" THEN title(month_abbr[date.month])
        ELSE <<fmt[1]>>)
       \o Formatted(date, Tail(fmt), pads)

\* date.strftime(fmt)
strftime(date, fmt) == Formatted(date, fmt, pads_year)

\* parsed = strptime(date_str, target_format);
\* return parsed.strftime(target_format) == date_str
Reformatted(parsed, date_str, target_format) ==
  IF IsError(parsed) THEN FALSE ELSE strftime(parsed, target_format) = date_str
_is_target_format(date_str, target_format) ==
  Reformatted(strptime(date_str, target_format), date_str, target_format)

\* re.findall(r'\d+', s) from character i on, run being the digits of the
\* number that is being read
RECURSIVE DigitRunsFrom(_, _, _, _)
DigitRunsFrom(s, i, run, numbers) ==
  IF i > Len(s) THEN (IF run = <<>> THEN numbers ELSE Append(numbers, run))
  ELSE IF s[i] \in DigitChars THEN DigitRunsFrom(s, i + 1, Append(run, s[i]), numbers)
  ELSE DigitRunsFrom(s, i + 1, <<>>, IF run = <<>> THEN numbers ELSE Append(numbers, run))

int(s) == DigitsValue(s, 1, 0)

\* the year, month and day _parse_date_with_regex takes the numbers for
GuessedDate(numbers) ==
  LET last == numbers[Len(numbers)]
      year_candidate == IF Len(last) = 2 THEN int(last) ELSE int(numbers[1])
      year == IF year_candidate < 50 THEN 2000 + year_candidate ELSE 1900 + year_candidate
  IN  IF Len(numbers[1]) = 4 THEN Date(int(numbers[1]), int(numbers[2]), int(numbers[3]))
      ELSE IF Len(last) = 4 THEN Date(int(numbers[3]), int(numbers[1]), int(numbers[2]))
      ELSE IF Len(numbers[2]) = 4 THEN Date(int(numbers[2]), int(numbers[3]), int(numbers[1]))
      ELSE IF Len(numbers[1]) = 2 /\ year_candidate = int(numbers[1])
      THEN Date(year, int(numbers[2]), int(numbers[3]))
      ELSE Date(year, int(numbers[1]), int(numbers[2]))

\* the validity test, datetime(year, month, day) and strftime
ValidDate(date, target_format) ==
  IF /\ 1 <= date.month /\ date.month <= 12
     /\ 1 <= date.day /\ date.day <= 31
     /\ 1900 <= date.year /\ date.year <= 2100
     /\ date.day <= _days_in_month(date.year, date.month)
  THEN Str(strftime(date, target_format))
  ELSE NotConverted

GuessedFrom(numbers, target_format) ==
  IF Len(numbers) >= 3 THEN ValidDate(GuessedDate(numbers), target_format)
  ELSE NotConverted
_parse_date_with_regex(date_str, target_format) ==
  GuessedFrom(DigitRunsFrom(date_str, 1, <<>>, <<>>), target_format)

\* the loop over date_formats from format i on, then the regular expression
ParsedOr(parsed_date, target_format, otherwise) ==
  IF IsError(parsed_date) THEN otherwise ELSE Str(strftime(parsed_date, target_format))
RECURSIVE TryFormatsFrom(_, _, _)
TryFormatsFrom(value_str, target_format, i) ==
  IF i > Len(date_formats) THEN _parse_date_with_regex(value_str, target_format)
  ELSE ParsedOr(strptime(value_str, date_formats[i]), target_format,
                TryFormatsFrom(value_str, target_format, i + 1))

\* the branch of a str
ConvertDateString(value_str, target_format) ==
  IF value_str = <<>> THEN NotConverted
  ELSE IF _is_target_format(value_str, target_format) THEN Str(value_str)
  ELSE TryFormatsFrom(value_str, target_format, 1)

\* the serial date one day later: datetime(1900, 1, 1) + timedelta(days=value - 1)
SerialDateFrom1900(days) == _ord2ymd(_ymd2ord(1900, 1, 1) + days - 1)

\* datetime(1900, 1, 1) + timedelta(days=value - 2), days being the whole
\* days of value
SerialDate(days) == _ord2ymd(_ymd2ord(1900, 1, 1) + days - 2)

\* if 1 <= value <= 2958465, value being an int or a float
InSerialRange(x) ==
  /\ ~x.neg
  /\ x.digits \div Pow10(x.places) >= 1
  /\ \/ x.digits \div Pow10(x.places) < 2958465
     \/ x.digits \div Pow10(x.places) = 2958465 /\ x.digits % Pow10(x.places) = 0

ConvertSerial(x, target_format) ==
  IF InSerialRange(x)
  THEN Str(strftime(SerialDate(x.digits \div Pow10(x.places)), target_format))
  ELSE NotConverted

\* converted_value of a cell: a str, or None
ConvertDate(value, target_format) ==
  IF value.k = "datetime" THEN Str(strftime(value.v, target_format))
  ELSE IF value.k = "hugeint" THEN NotConverted
  ELSE IF value.k \in {"int", "float"} THEN ConvertSerial(ConvertNumber(value), target_format)
  ELSE IF value.k = "str" THEN ConvertDateString(strip(value.v), target_format)
  ELSE NotConverted

\* one iteration of the loop of _normalize_dates: the column and the log
DateValue(acc, idx, value, converted_value, column_name, file_name, sheet_name) ==
  IF isna(value) \/ IsError(converted_value) THEN acc
  ELSE [series |-> [acc.series EXCEPT ![idx + 1] = converted_value],
        normalizer |->
          IF str(value) # str(converted_value)
          THEN _log_change_dict(acc.normalizer, file_name, sheet_name, idx, column_name,
                                "date_format", value, converted_value)
          ELSE acc.normalizer]

\* _normalize_dates from row idx on
RECURSIVE NormalizeDatesFrom(_, _, _, _, _, _, _)
NormalizeDatesFrom(series, target_format, column_name, file_name, sheet_name, idx, acc) ==
  IF idx >= Len(series) THEN acc
  ELSE NormalizeDatesFrom(series, target_format, column_name, file_name, sheet_name,
         idx + 1,
         DateValue(acc, idx, series[idx + 1], ConvertDate(series[idx + 1], target_format),
                   column_name, file_name, sheet_name))

_normalize_dates(series, standard, column_name, file_name, sheet_name, normalizer) ==
  NormalizeDatesFrom(series, Get(standard, "format", f_Ymd_dash), column_name, file_name,
                     sheet_name, 0, [series |-> series, normalizer |-> normalizer])

-----------------------------------------------------------------------------
(* ExcelProcessor._analyze_data_types and its helpers *)

\* s[from..to] is a run of digits
DigitRun(s, from, to) == to <= Len(s) /\ \A i \in from..to : s[i] \in DigitChars

\* re.match(r'\d{..}S\d{1,2}S\d{..}', s): a run of digits of one of the first
\* lengths, the separator, one or two digits, the separator, a run of digits
\* of one of the last lengths, at the start of s
DatePatternMatches(s, first, sep, last) ==
  \E a \in first, b \in 1..2, c \in last :
    /\ Len(s) >= a + b + c + 2
    /\ DigitRun(s, 1, a)
    /\ s[a + 1] = sep
    /\ DigitRun(s, a + 2, a + b + 1)
    /\ s[a + b + 2] = sep
    /\ DigitRun(s, a + b + 3, a + b + c + 2)

_is_date_string(value) ==
  \/ DatePatternMatches(strip(value), {4}, "-", 1..2)
  \/ DatePatternMatches(strip(value), {4}, "/", 1..2)
  \/ DatePatternMatches(strip(value), 1..2, "/", {4})
  \/ DatePatternMatches(strip(value), 1..2, "-", {4})
  \/ DatePatternMatches(strip(value), {4}, ".", 1..2)

\* the count a sample value adds to: number_count, date_count or text_count
CountedAs(value) ==
  IF value.k \in {"int", "float", "hugeint"} THEN "number"
  ELSE IF value.k = "datetime" THEN "date"
  ELSE IF value.k = "str"
  THEN (IF ~IsError(float(RemoveChars(value.v, {","}))) THEN "number"
        ELSE IF _is_date_string(value.v) THEN "date"
        ELSE "text")
  ELSE "text"

CountOf(sample_values, type) ==
  Cardinality({i \in 1..Len(sample_values) : CountedAs(sample_values[i]) = type})

\* number if number_count / total > 0.7, date if date_count / total > 0.5
_infer_data_type(sample_values) ==
  IF 10 * CountOf(sample_values, "number") > 7 * Len(sample_values) THEN "number"
  ELSE IF 2 * CountOf(sample_values, "date") > Len(sample_values) THEN "date"
  ELSE "text"

\* the sample of the column: the cells that are not None of the ten rows
\* from data_start on (rows and columns are counted from 0)
SampleValues(data, data_start, col_idx) ==
  LET rows == SubSeq(data, data_start + 1, Min(data_start + 10, Len(data)))
      in_row == SelectSeq(rows, LAMBDA row : col_idx < Len(row) /\ ~isna(row[col_idx + 1]))
  IN  [i \in 1..Len(in_row) |-> in_row[i][col_idx + 1]]

\* the loop of _analyze_data_types from column col_idx on
RECURSIVE DataTypesFrom(_, _, _, _, _)
DataTypesFrom(data, data_start, columns, col_idx, data_types) ==
  IF col_idx >= Len(columns) THEN data_types
  ELSE DataTypesFrom(data, data_start, columns, col_idx + 1,
         DictSet(data_types, columns[col_idx + 1],
                 IF SampleValues(data, data_start, col_idx) = <<>> THEN "text"
                 ELSE _infer_data_type(SampleValues(data, data_start, col_idx))))

_analyze_data_types(data, header_row, columns) ==
  DataTypesFrom(data, header_row + 1, columns, 0, <<>>)

\* The columns of the merge run's files are text columns.
_normalize_column(series, standard, column_name, file_name, sheet_name, normalizer) ==
  IF Get(standard, "type", "text") = "number"
  THEN _normalize_numbers(series, standard, column_name, file_name, sheet_name, normalizer)
  ELSE IF Get(standard, "type", "text") = "date"
  THEN _normalize_dates(series, standard, column_name, file_name, sheet_name, normalizer)
  ELSE IF Get(standard, "type", "text") = "text"
  THEN _normalize_text(series, standard, column_name, file_name, sheet_name, normalizer)
  ELSE [series |-> series, normalizer |-> normalizer]

_clean_data(df, file_name, sheet_name, normalizer) ==
  LET cleaned_df == dropna_all(df)
      empty_rows_before == Len(df.rows)
      empty_rows_after == Len(cleaned_df.rows)
  IN  [df |-> cleaned_df,
       normalizer |->
         IF empty_rows_before # empty_rows_after
         THEN _log_change_dict(normalizer, file_name, sheet_name, -1, s_ALL_COLUMNS,
                "remove_empty_rows",
                Str(Digits(empty_rows_before) \o s_Haeng),
                Str(Digits(empty_rows_after) \o s_Haeng))
         ELSE normalizer]

\* normalized_df[column] = self._normalize_column(...)
NormalizedColumn(acc, column, done) ==
  [df |-> SetColumn(acc.df, column, done.series), normalizer |-> done.normalizer]

\* the column loop of normalize_data from column c on
RECURSIVE NormalizeColumnsFrom(_, _, _, _, _, _)
NormalizeColumnsFrom(columns, format_standards, file_name, sheet_name, c, acc) ==
  IF c > Len(columns) THEN acc
  ELSE NormalizeColumnsFrom(columns, format_standards, file_name, sheet_name, c + 1,
         IF DictHas(format_standards, columns[c])
         THEN NormalizedColumn(acc, columns[c],
                _normalize_column(Column(acc.df, columns[c]),
                                  DictGet(format_standards, columns[c]),
                                  columns[c], file_name, sheet_name, acc.normalizer))
         ELSE acc)

\* normalized_df = self._clean_data(normalized_df, file_name, sheet_name)
Cleaned(acc, file_name, sheet_name) ==
  _clean_data(acc.df, file_name, sheet_name, acc.normalizer)

\* normalize_data: the normalized frame and the normalizer after the call;
\* the call begins with self.change_logs = []
normalize_data(normalizer, df, format_standards, file_name, sheet_name) ==
  Cleaned(NormalizeColumnsFrom(df.columns, format_standards, file_name, sheet_name, 1,
                               [df |-> df,
                                normalizer |-> Normalizer(<<>>, normalizer.appended)]),
          file_name, sheet_name)

\* one pass of the case pattern test of _analyze_text_format
CasePattern(value, case_pattern) ==
  IF isupper(value) /\ case_pattern # "mixed"
  THEN (IF case_pattern = "None" THEN "upper" ELSE "mixed")
  ELSE IF islower(value) /\ case_pattern # "mixed"
  THEN (IF case_pattern = "None" THEN "lower" ELSE "mixed")
  ELSE IF istitle(value) /\ case_pattern # "mixed"
  THEN (IF case_pattern = "None" THEN "title" ELSE "mixed")
  ELSE "mixed"

\* the case pattern loop of _analyze_text_format from sample i on; a sample
\* that is not a str is passed over
RECURSIVE CasePatternFrom(_, _, _)
CasePatternFrom(sample_data, i, case_pattern) ==
  IF i > Len(sample_data) THEN case_pattern
  ELSE CasePatternFrom(sample_data, i + 1,
         IF sample_data[i].k = "str"
         THEN CasePattern(sample_data[i].v, case_pattern)
         ELSE case_pattern)

_analyze_text_format(sample_data) ==
  LET case_pattern == CasePatternFrom(sample_data, 1, "None")
  IN  [type |-> "text",
       trim_whitespace |-> \E i \in 1..Len(sample_data) :
                             /\ sample_data[i].k = "str"
                             /\ sample_data[i].v # strip(sample_data[i].v),
       normalize_spaces |-> \E i \in 1..Len(sample_data) :
                              /\ sample_data[i].k = "str"
                              /\ HasSpaceRun(sample_data[i].v),
       case |-> IF case_pattern \in {"mixed", "None"} THEN "none" ELSE case_pattern]

\* the first of common_formats from f on that reads the string, 0 if none
RECURSIVE FirstFormatReading(_, _)
FirstFormatReading(value, f) ==
  IF f > Len(common_formats) THEN 0
  ELSE IF ~IsError(strptime(value, common_formats[f])) THEN f
  ELSE FirstFormatReading(value, f + 1)

\* the format a sample is counted for, 0 if it is counted for none
CountedFor(value) ==
  IF value.k = "str" THEN FirstFormatReading(strip(value.v), 1)
  ELSE IF value.k = "datetime" THEN 1
  ELSE 0

\* format_counts after the loop over the samples
format_counts(sample_data) ==
  LET counted == [i \in 1..Len(sample_data) |-> CountedFor(sample_data[i])]
  IN  [f \in 1..Len(common_formats) |->
         Cardinality({i \in 1..Len(sample_data) : counted[i] = f})]

\* the last key with the highest count
BestFormatLast(counts) ==
  CHOOSE f \in DOMAIN counts :
    \A g \in DOMAIN counts : counts[f] > counts[g] \/ (counts[f] = counts[g] /\ f >= g)

\* max(format_counts, key=format_counts.get): the first key with the
\* highest count
BestFormat(counts) ==
  CHOOSE f \in DOMAIN counts :
    \A g \in DOMAIN counts : counts[f] > counts[g] \/ (counts[f] = counts[g] /\ f <= g)

_analyze_date_format(sample_data) ==
  [type |-> "date", format |-> common_formats[BestFormat(format_counts(sample_data))]]

\* len(value.split('.')[-1]) if '.' in value, else 0
DecimalPartLength(value) ==
  IF \E i \in 1..Len(value) : value[i] = "."
  THEN Len(value) - (CHOOSE i \in 1..Len(value) :
                       value[i] = "." /\ \A j \in (i + 1)..Len(value) : value[j] # ".")
  ELSE 0

_analyze_number_format(sample_data) ==
  [type |-> "number",
   decimal_places |->
     LET lengths == {0} \cup {DecimalPartLength(str(sample_data[i])) :
                       i \in {j \in 1..Len(sample_data) : sample_data[j].k \in {"str", "float"}}}
     IN  CHOOSE n \in lengths : \A m \in lengths : n >= m,
   thousands_separator |->
     \E i \in 1..Len(sample_data) :
       sample_data[i].k = "str" /\ InSeq(",", sample_data[i].v)]

SAMPLE_SIZE == 10

\* df[column].dropna().head(10).tolist()
SampleData(df, column) ==
  LET values == SelectSeq(Column(df, column), notna)
  IN  SubSeq(values, 1, Min(SAMPLE_SIZE, Len(values)))

\* extract_format_standards: a dict column -> standard
RECURSIVE ExtractStandardsFrom(_, _, _, _)
ExtractStandardsFrom(df, data_types, c, standards) ==
  IF c > Len(df.columns) THEN standards
  ELSE LET column == df.columns[c]
       IN  ExtractStandardsFrom(df, data_types, c + 1,
             IF ~DictHas(data_types, column) THEN standards
             ELSE IF DictGet(data_types, column) = "text"
                  THEN DictSet(standards, column, _analyze_text_format(SampleData(df, column)))
                  ELSE IF DictGet(data_types, column) = "date"
                  THEN DictSet(standards, column, _analyze_date_format(SampleData(df, column)))
                  ELSE IF DictGet(data_types, column) = "number"
                  THEN DictSet(standards, column, _analyze_number_format(SampleData(df, column)))
                  ELSE DictSet(standards, column, [type |-> DictGet(data_types, column)]))

extract_format_standards(df, data_types) == ExtractStandardsFrom(df, data_types, 1, <<>>)

-----------------------------------------------------------------------------
(* The files of a run.  A file is what read_file_structure and             *)
(* read_sheet_data return for it: error (the structure analysis reports an *)
(* error_message), data_error (read_sheet_data raises), and per usable     *)
(* sheet its name, its columns, their data types and its data rows.        *)

File(file_name, error, data_error, sheets) ==
  [file_name |-> file_name, error |-> error, data_error |-> data_error, sheets |-> sheets]
Sheet(name, columns, rows) ==
  [name |-> name, columns |-> columns,
   data_types |-> [c \in 1..Len(columns) |-> <<columns[c], "text">>],
   rows |-> rows]
Text(s) == Str(s)

SheetNames(sheets) == [i \in 1..Len(sheets) |-> sheets[i].name]

\* read_file_structure without the error of the analysis
ReadStructureIgnoringError(file) == [error_message |-> FALSE, sheets |-> file.sheets]

\* ExcelProcessor.read_file_structure
read_file_structure(file) ==
  [error_message |-> file.error,
   sheets |-> IF file.error THEN <<>> ELSE file.sheets]

\* ExcelProcessor.read_sheet_data: raised, or the frame of the sheet
read_sheet_data(file, sheet_name) ==
  IF \/ read_file_structure(file).error_message
     \/ \A i \in 1..Len(file.sheets) : file.sheets[i].name # sheet_name
     \/ file.data_error
  THEN [raised |-> TRUE]
  ELSE [raised |-> FALSE,
        df |-> LET sheet_info ==
                     file.sheets[CHOOSE i \in 1..Len(file.sheets) :
                                   /\ file.sheets[i].name = sheet_name
                                   /\ \A j \in 1..(i - 1) : file.sheets[j].name # sheet_name]
               IN  Frame(sheet_info.columns, sheet_info.rows)]

-----------------------------------------------------------------------------
(* MergeController: the stages of _merge_process as functions              *)

\* one iteration of the loop of _validate_files_compatibility
CheckedFile(compatibility_issues, i, file_structure, ref_sheet_names) ==
  IF file_structure.error_message
  THEN Append(compatibility_issues, [file |-> i, issue |-> "analysis_failed"])
  ELSE IF match_sheets(ref_sheet_names, SheetNames(file_structure.sheets),
                       SIMILARITY_THRESHOLD) = <<>>
  THEN Append(compatibility_issues, [file |-> i, issue |-> "no_matching_sheet"])
  ELSE compatibility_issues

\* the loop of _validate_files_compatibility from file i on: the issues
RECURSIVE CompatibilityIssuesFrom(_, _, _, _)
CompatibilityIssuesFrom(ref_sheet_names, merge_files, i, compatibility_issues) ==
  IF i > Len(merge_files) THEN compatibility_issues
  ELSE CompatibilityIssuesFrom(ref_sheet_names, merge_files, i + 1,
         CheckedFile(compatibility_issues, i, read_file_structure(merge_files[i]),
                     ref_sheet_names))

\* the verdict without `if compatibility_issues:`
CompatibilityResultIgnoringIssues(compatibility_issues) ==
  [success |-> TRUE, issues |-> compatibility_issues]

\* the verdict: success unless there is an issue
CompatibilityResult(compatibility_issues) ==
  [success |-> compatibility_issues = <<>>, issues |-> compatibility_issues]

_validate_files_compatibility(reference_file, merge_files) ==
  IF read_file_structure(reference_file).error_message
  THEN [success |-> FALSE, issues |-> <<[file |-> 0, issue |-> "analysis_failed"]>>]
  ELSE CompatibilityResult(
         CompatibilityIssuesFrom(SheetNames(read_file_structure(reference_file).sheets),
                                 merge_files, 1, <<>>))

\* the standards of one sheet with {'type': 'text'} for every column when
\* reading it raises
SheetStandardsText(sheet, read) ==
  IF read.raised
  THEN [c \in 1..Len(sheet.columns) |-> <<sheet.columns[c], [type |-> "text"]>>]
  ELSE extract_format_standards(read.df, sheet.data_types)

\* the standards of one sheet: those extracted from its data, or, when
\* reading it raises, {col: {'type': sheet.data_types.get(col, 'text')}}
SheetStandards(sheet, read) ==
  IF read.raised
  THEN [c \in 1..Len(sheet.columns) |->
          <<sheet.columns[c],
            [type |-> IF DictHas(sheet.data_types, sheet.columns[c])
                      THEN DictGet(sheet.data_types, sheet.columns[c])
                      ELSE "text"]>>]
  ELSE extract_format_standards(read.df, sheet.data_types)

\* _extract_format_standards: a dict sheet name -> (dict column -> standard)
RECURSIVE FormatStandardsFrom(_, _, _)
FormatStandardsFrom(reference_file, i, format_standards) ==
  IF i > Len(reference_file.sheets) THEN format_standards
  ELSE FormatStandardsFrom(reference_file, i + 1,
         DictSet(format_standards, reference_file.sheets[i].name,
                 SheetStandards(reference_file.sheets[i],
                                read_sheet_data(reference_file,
                                                reference_file.sheets[i].name))))

_extract_format_standards(reference_file) == FormatStandardsFrom(reference_file, 1, <<>>)

\* _align_columns
_align_columns(df, reference_columns, column_mappings) ==
  LET mapped(ref_col) ==
        DictHas(column_mappings, ref_col) /\ HasColumn(df, DictGet(column_mappings, ref_col))
      n == IF \E c \in 1..Len(reference_columns) : mapped(reference_columns[c])
           THEN Len(df.rows) ELSE 0
  IN  Frame(reference_columns,
            [r \in 1..n |->
               [c \in 1..Len(reference_columns) |->
                  IF mapped(reference_columns[c])
                  THEN df.rows[r][ColumnIndex(df, DictGet(column_mappings, reference_columns[c]))]
                  ELSE NaN]])

\* the sheet_mapping records of _process_merge_file
RECURSIVE LogSheetMappingsFrom(_, _, _, _)
LogSheetMappingsFrom(sheet_mappings, file_name, i, normalizer) ==
  IF i > Len(sheet_mappings) THEN normalizer
  ELSE LogSheetMappingsFrom(sheet_mappings, file_name, i + 1,
         IF sheet_mappings[i][1] # sheet_mappings[i][2]
         THEN _log_change_dict(normalizer, file_name, sheet_mappings[i][1], -1, s_SHEET_NAME,
                "sheet_mapping", Str(sheet_mappings[i][2]), Str(sheet_mappings[i][1]))
         ELSE normalizer)

\* the column_mapping records of _process_merge_file
RECURSIVE LogColumnMappingsFrom(_, _, _, _, _)
LogColumnMappingsFrom(column_mappings, file_name, ref_sheet_name, i, normalizer) ==
  IF i > Len(column_mappings) THEN normalizer
  ELSE LogColumnMappingsFrom(column_mappings, file_name, ref_sheet_name, i + 1,
         IF column_mappings[i][1] # column_mappings[i][2]
         THEN _log_change_dict(normalizer, file_name, ref_sheet_name, -1,
                column_mappings[i][1], "column_mapping",
                Str(column_mappings[i][2]), Str(column_mappings[i][1]))
         ELSE normalizer)

\* next((s for s in reference_structure.sheets if s.name == ref_sheet_name), None)
HasSheet(sheets, name) == \E k \in 1..Len(sheets) : sheets[k].name = name
SheetNamed(sheets, name) ==
  sheets[CHOOSE k \in 1..Len(sheets) :
           /\ sheets[k].name = name
           /\ \A j \in 1..(k - 1) : sheets[j].name # name]

\* normalized_df['_source_file'] = file_name; result_data[ref_sheet_name] = normalized_df
StoredSheet(acc, ref_sheet_name, file_name, normalized) ==
  [raised |-> FALSE,
   result_data |-> DictSet(acc.result_data, ref_sheet_name,
                           SetColumnScalar(normalized.df, s_source_file, Str(file_name))),
   normalizer |-> normalized.normalizer]

\* one sheet of _process_merge_file once its columns are matched: the
\* column_mapping records, the alignment and the normalization
MatchedSheetData(acc, file_name, ref_sheet, df, column_mappings, standards) ==
  StoredSheet(acc, ref_sheet.name, file_name,
    normalize_data(LogColumnMappingsFrom(column_mappings, file_name, ref_sheet.name, 1,
                                         acc.normalizer),
                   _align_columns(df, ref_sheet.columns, column_mappings),
                   standards, file_name, ref_sheet.name))

\* one sheet of _process_merge_file once its data is read
ReadSheetData(acc, file_name, ref_sheet, read, format_standards) ==
  IF read.raised THEN [acc EXCEPT !.raised = TRUE]
  ELSE IF empty(read.df) THEN acc
  ELSE MatchedSheetData(acc, file_name, ref_sheet, read.df,
                        match_columns(ref_sheet.columns, read.df.columns,
                                      COLUMN_SIMILARITY_THRESHOLD),
                        DictGet(format_standards, ref_sheet.name))

\* one iteration of the sheet loop of _process_merge_file
ProcessedSheet(acc, merge_file, reference_file, format_standards, ref_sheet_name, target_sheet_name) ==
  IF acc.raised \/ ~HasSheet(reference_file.sheets, ref_sheet_name) THEN acc
  ELSE ReadSheetData(acc, merge_file.file_name,
                     SheetNamed(reference_file.sheets, ref_sheet_name),
                     read_sheet_data(merge_file, target_sheet_name), format_standards)

\* the sheet loop of _process_merge_file from mapping i on: raised, the
\* result_data (a dict reference sheet -> frame) and the normalizer
RECURSIVE ProcessSheetsFrom(_, _, _, _, _, _)
ProcessSheetsFrom(merge_file, reference_file, format_standards, sheet_mappings, i, acc) ==
  IF i > Len(sheet_mappings) THEN acc
  ELSE ProcessSheetsFrom(merge_file, reference_file, format_standards, sheet_mappings,
         i + 1,
         ProcessedSheet(acc, merge_file, reference_file, format_standards,
                        sheet_mappings[i][1], sheet_mappings[i][2]))

\* _process_merge_file once the sheets are matched
MatchedFile(merge_file, reference_file, format_standards, normalizer, sheet_mappings) ==
  ProcessSheetsFrom(merge_file, reference_file, format_standards, sheet_mappings, 1,
    [raised |-> FALSE, result_data |-> <<>>,
     normalizer |-> LogSheetMappingsFrom(sheet_mappings, merge_file.file_name, 1,
                                         normalizer)])

\* _process_merge_file: raised, the result_data and the normalizer after the call
_process_merge_file(merge_file, reference_file, format_standards, normalizer) ==
  IF read_file_structure(merge_file).error_message
  THEN [raised |-> TRUE, result_data |-> <<>>, normalizer |-> normalizer]
  ELSE MatchedFile(merge_file, reference_file, format_standards, normalizer,
         match_sheets(SheetNames(reference_file.sheets),
                      SheetNames(read_file_structure(merge_file).sheets),
                      SIMILARITY_THRESHOLD))

StartsWith(s, prefix) ==
  Len(s) >= Len(prefix) /\ SubSeq(s, 1, Len(prefix)) = prefix

\* "; ".join(notes)
RECURSIVE Join(_)
Join(notes) ==
  IF notes = <<>> THEN <<>>
  ELSE IF Len(notes) = 1 THEN notes[1]
  ELSE notes[1] \o s_Sep \o Join(Tail(notes))

\* str(df.iloc[idx]['비고']) if pd.notna(df.iloc[idx]['비고']) else ''
ExistingNote(df, idx) ==
  LET cell == df.rows[idx + 1][ColumnIndex(df, s_BiGo)]
  IN  IF notna(cell) THEN str(cell) ELSE <<>>

\* the note of row idx extended by note
AddNote(df, idx, note) ==
  LET existing_note == ExistingNote(df, idx)
  IN  SetCell(df, idx, s_BiGo,
              Str(IF existing_note # <<>> THEN existing_note \o s_Sep \o note ELSE note))

\* the first loop of _add_change_notes_to_dataframe from row idx on
RECURSIVE SourceNotesFrom(_, _)
SourceNotesFrom(df, idx) ==
  IF idx >= Len(df.rows) THEN df
  ELSE LET source_file == df.rows[idx + 1][ColumnIndex(df, s_source_file)]
       IN  SourceNotesFrom(
             IF /\ notna(source_file)
                /\ strip(str(source_file)) # <<>>
                /\ ~StartsWith(str(source_file), s_WonBon)
             THEN AddNote(df, idx, s_ChulCheo \o str(source_file))
             ELSE df,
             idx + 1)

\* the file names of the records, in the order of their first record
RECURSIVE FileNamesFrom(_, _, _)
FileNamesFrom(logs, i, names) ==
  IF i > Len(logs) THEN names
  ELSE FileNamesFrom(logs, i + 1,
         IF InSeq(logs[i].file_name, names) THEN names ELSE Append(names, logs[i].file_name))

MappingNote(log) ==
  IF log.change_type = "sheet_mapping"
  THEN s_SiTeuMaeChing \o str(log.original_value) \o s_Arrow \o str(log.new_value) \o s_Close
  ELSE s_YeolMaeChing \o log.column_name \o s_Colon \o str(log.original_value)
         \o s_Arrow \o str(log.new_value) \o s_Close

\* the mapping notes loop from row idx on
RECURSIVE MappingNotesFrom(_, _, _, _)
MappingNotesFrom(df, file_name, mappings, idx) ==
  IF idx >= Len(df.rows) THEN df
  ELSE LET existing_note == ExistingNote(df, idx)
           noted == SelectSeq(mappings, LAMBDA log : log.original_value # log.new_value)
           mapping_notes == [k \in 1..Len(noted) |-> MappingNote(noted[k])]
       IN  MappingNotesFrom(
             IF /\ Contains(existing_note, file_name) \/ (existing_note = <<>> /\ idx >= 3)
                /\ mapping_notes # <<>>
             THEN AddNote(df, idx, Join(mapping_notes))
             ELSE df,
             file_name, mappings, idx + 1)

RowChangeNote(log) ==
  (IF log.change_type = "date_format" THEN s_NalJjaHyeongSikByeonGyeong
   ELSE IF log.change_type = "number_format" THEN s_SusJaHyeongSikByeonGyeong
   ELSE IF log.change_type = "text_format" THEN s_TekSeuTeuJeongRi
   ELSE <<log.change_type, "(">>)
  \o log.column_name \o s_Colon \o str(log.original_value) \o s_Arrow
  \o str(log.new_value) \o s_Close

\* the row changes loop from record i on
RECURSIVE RowChangeNotesFrom(_, _, _)
RowChangeNotesFrom(df, row_changes, i) ==
  IF i > Len(row_changes) THEN df
  ELSE RowChangeNotesFrom(
         IF 0 <= row_changes[i].row_index /\ row_changes[i].row_index < Len(df.rows)
         THEN AddNote(df, row_changes[i].row_index, RowChangeNote(row_changes[i]))
         ELSE df,
         row_changes, i + 1)

\* the loop over file_logs from file f on
RECURSIVE FileNotesFrom(_, _, _, _)
FileNotesFrom(df, sheet_logs, file_names, f) ==
  IF f > Len(file_names) THEN df
  ELSE LET logs == SelectSeq(sheet_logs, LAMBDA log : log.file_name = file_names[f])
           sheet_mappings == SelectSeq(logs, LAMBDA log : log.change_type = "sheet_mapping")
           column_mappings == SelectSeq(logs, LAMBDA log : log.change_type = "column_mapping")
           row_changes == SelectSeq(logs, LAMBDA log : log.row_index >= 0)
           mapped == IF sheet_mappings # <<>> \/ column_mappings # <<>>
                     THEN MappingNotesFrom(df, file_names[f],
                                           sheet_mappings \o column_mappings, 0)
                     ELSE df
       IN  FileNotesFrom(RowChangeNotesFrom(mapped, row_changes, 1), sheet_logs,
                         file_names, f + 1)

_add_change_notes_to_dataframe(df, sheet_name, change_logs) ==
  LET sourced == IF HasColumn(df, s_source_file)
                 THEN DropColumn(SourceNotesFrom(df, 0), s_source_file)
                 ELSE df
      sheet_logs == SelectSeq(change_logs, LAMBDA log : log.sheet_name = sheet_name)
  IN  FileNotesFrom(sourced, sheet_logs, FileNamesFrom(sheet_logs, 1, <<>>), 1)

\* for i, df in enumerate(dataframes): if '비고' not in df.columns: df['비고'] = ''
WithNoteColumn(dataframes) ==
  [k \in 1..Len(dataframes) |->
     IF HasColumn(dataframes[k], s_BiGo) THEN dataframes[k]
     ELSE SetColumnScalar(dataframes[k], s_BiGo, Str(<<>>))]

\* one sheet of _combine_sheet_data once the reference sheet is read
CombinedSheet(acc, merged_data, sheet_name, read, change_logs) ==
  IF acc.raised THEN acc
  ELSE IF read.raised THEN [acc EXCEPT !.raised = TRUE]
  ELSE IF ~DictHas(merged_data, sheet_name)
  THEN [acc EXCEPT !.combined_data =
          DictSet(@, sheet_name, SetColumnScalar(read.df, s_BiGo, Str(<<>>)))]
  ELSE [acc EXCEPT !.combined_data =
          DictSet(@, sheet_name,
            _add_change_notes_to_dataframe(
              concat(WithNoteColumn(<<SetColumnScalar(read.df, s_BiGo, Str(<<>>))>>
                                    \o DictGet(merged_data, sheet_name))),
              sheet_name, change_logs))]

\* _combine_sheet_data from reference sheet i on: raised, and the
\* combined_data (a dict sheet name -> frame)
RECURSIVE CombineFrom(_, _, _, _, _)
CombineFrom(merged_data, reference_file, change_logs, i, acc) ==
  IF i > Len(reference_file.sheets) THEN acc
  ELSE CombineFrom(merged_data, reference_file, change_logs, i + 1,
         CombinedSheet(acc, merged_data, reference_file.sheets[i].name,
                       read_sheet_data(reference_file, reference_file.sheets[i].name),
                       change_logs))

_combine_sheet_data(merged_data, reference_file, change_logs) ==
  CombineFrom(merged_data, reference_file, change_logs, 1,
              [raised |-> FALSE, combined_data |-> <<>>])

\* the data merge loop putting the frame of a file before those of the files
\* processed earlier
RECURSIVE MergeFileDataPrepending(_, _, _)
MergeFileDataPrepending(merged_data, file_data, i) ==
  IF i > Len(file_data) THEN merged_data
  ELSE MergeFileDataPrepending(
         DictSet(merged_data, file_data[i][1],
                 <<file_data[i][2]>>
                 \o (IF DictHas(merged_data, file_data[i][1])
                     THEN DictGet(merged_data, file_data[i][1]) ELSE <<>>)),
         file_data, i + 1)

\* the data merge loop of _merge_process: merged_data[sheet_name].append(df)
RECURSIVE MergeFileDataFrom(_, _, _)
MergeFileDataFrom(merged_data, file_data, i) ==
  IF i > Len(file_data) THEN merged_data
  ELSE MergeFileDataFrom(
         DictSet(merged_data, file_data[i][1],
                 (IF DictHas(merged_data, file_data[i][1])
                  THEN DictGet(merged_data, file_data[i][1]) ELSE <<>>)
                 \o <<file_data[i][2]>>),
         file_data, i + 1)

\* the sheet loop of _validate_merged_data from reference sheet i on
RECURSIVE ValidationIssuesFrom(_, _, _, _)
ValidationIssuesFrom(combined_data, sheets, i, validation_issues) ==
  IF i > Len(sheets) THEN validation_issues
  ELSE LET sheet == sheets[i]
           df == DictGet(combined_data, sheet.name)
           missing_columns == {sheet.columns[c] : c \in 1..Len(sheet.columns)}
                              \ {df.columns[c] : c \in 1..Len(df.columns)}
           duplicate_count == Len(df.rows) - Len(drop_duplicates(df).rows)
           missing == IF missing_columns # {}
                      THEN <<[issue |-> "missing_columns", sheet |-> sheet.name,
                              columns |-> missing_columns]>>
                      ELSE <<>>
           no_rows == IF Len(df.rows) = 0
                      THEN <<[issue |-> "no_rows", sheet |-> sheet.name]>>
                      ELSE <<>>
           duplicates == IF Len(df.rows) # Len(drop_duplicates(df).rows)
                         THEN <<[issue |-> "duplicates", sheet |-> sheet.name,
                                 count |-> duplicate_count]>>
                         ELSE <<>>
       IN  ValidationIssuesFrom(combined_data, sheets, i + 1,
             IF ~DictHas(combined_data, sheet.name)
             THEN Append(validation_issues, [issue |-> "missing_sheet", sheet |-> sheet.name])
             ELSE IF empty(df)
             THEN Append(validation_issues, [issue |-> "no_data", sheet |-> sheet.name])
             ELSE validation_issues \o missing \o no_rows \o duplicates)

_validate_merged_data(combined_data, sheets) ==
  LET validation_issues == ValidationIssuesFrom(combined_data, sheets, 1, <<>>)
  IN  [success |-> validation_issues = <<>>, issues |-> validation_issues]

-----------------------------------------------------------------------------
(* The files a run is started with *)

MaxFiles == 2

s_KIM == <<"K", "I", "M">>
s_lee == <<"l", "e", "e">>
s_Park == <<"P", "a", "r", "k">>
s_HR == <<"H", "R">>
s_IT == <<"I", "T">>
s_high == <<"h", "i", "g", "h">>
s_low == <<"l", "o", "w">>

RefEmployees ==
  File(<<"r", "1">>, FALSE, FALSE,
       <<Sheet(s_Employees, <<s_IReum, s_BuSeo, s_YeonBong>>,
               <<<<Text(s_Park), Text(s_HR), Text(s_high)>>>>)>>)
RefStaff ==
  File(<<"r", "2">>, FALSE, FALSE,
       <<Sheet(s_JikWonJeongBo, <<s_IReum, s_BuSeo>>,
               <<<<Text(s_KIM), Text(<<" ">> \o s_HR)>>>>)>>)
RefDuplicates ==
  File(<<"r", "3">>, FALSE, FALSE,
       <<Sheet(s_JikWonJeongBo, <<s_IReum, s_BuSeo>>,
               <<<<Text(s_Park), Text(s_HR)>>, <<Text(s_Park), Text(s_HR)>>>>)>>)
RefUnreadable ==
  File(<<"r", "4">>, TRUE, FALSE,
       <<Sheet(s_JikWonJeongBo, <<s_IReum, s_BuSeo>>, <<<<Text(s_KIM), Text(s_HR)>>>>)>>)
RefNoSheets == File(<<"r", "5">>, FALSE, FALSE, <<>>)
RefDataError ==
  File(<<"r", "6">>, FALSE, TRUE,
       <<Sheet(s_JikWonJeongBo, <<s_IReum, s_BuSeo>>, <<<<Text(s_KIM), Text(s_HR)>>>>)>>)
RefTwoSheets ==
  File(<<"r", "7">>, FALSE, FALSE,
       <<Sheet(s_JikWonJeongBo, <<s_IReum, s_BuSeo>>, <<<<Text(s_Park), Text(s_HR)>>>>),
         Sheet(s_Sheet1, <<s_IReum>>, <<<<Text(s_KIM)>>>>)>>)

RefFiles ==
  {RefEmployees, RefStaff, RefDuplicates, RefUnreadable, RefNoSheets, RefDataError,
   RefTwoSheets}

CandSynonyms ==
  File(<<"c", "1">>, FALSE, FALSE,
       <<Sheet(s_JikWonJeongBo, <<s_SeongMyeong, s_SoSokBuSeo, s_GeupYeo>>,
               <<<<Text(s_lee), Text(s_IT), Text(s_low)>>>>)>>)
CandInfo ==
  File(<<"c", "2">>, FALSE, FALSE,
       <<Sheet(s_employee_info, <<s_name, s_Tim>>,
               <<<<Text(s_lee), Text(s_IT \o <<" ">>)>>,
                 <<NaN, NaN>>,
                 <<Text(s_KIM), Text(s_HR)>>>>)>>)
CandEmployees ==
  File(<<"c", "3">>, FALSE, FALSE,
       <<Sheet(s_Employees, <<s_SeongMyeong, s_SoSokBuSeo, s_GeupYeo>>,
               <<<<Text(s_lee), Text(s_IT), Text(s_low)>>>>)>>)
CandUnreadable ==
  File(<<"c", "4">>, TRUE, FALSE,
       <<Sheet(s_JikWonJeongBo, <<s_IReum, s_BuSeo>>, <<<<Text(s_lee), Text(s_IT)>>>>)>>)
CandNoMatch ==
  File(<<"c", "5">>, FALSE, FALSE,
       <<Sheet(s_Sheet1, <<s_IReum, s_BuSeo>>, <<<<Text(s_lee), Text(s_IT)>>>>)>>)
CandDataError ==
  File(<<"c", "6">>, FALSE, TRUE,
       <<Sheet(s_SaWonJeongBo, <<s_IReum, s_BuSeo>>, <<<<Text(s_lee), Text(s_IT)>>>>)>>)
\* a candidate file whose name begins like the word for the reference
CandWonBon ==
  File(s_WonBon \o <<"2">>, FALSE, FALSE,
       <<Sheet(s_JikWonJeongBo, <<s_IReum, s_BuSeo>>, <<<<Text(s_lee), Text(s_IT)>>>>)>>)

CandFiles ==
  {CandSynonyms, CandInfo, CandEmployees, CandUnreadable, CandNoMatch, CandDataError,
   CandWonBon}

\* the non-empty lists of at most n candidate files
RECURSIVE FileLists(_)
FileLists(n) ==
  IF n = 0 THEN {}
  ELSE {<<f>> : f \in CandFiles}
       \cup FileLists(n - 1)
       \cup {Append(files, f) : files \in FileLists(n - 1), f \in CandFiles}

-----------------------------------------------------------------------------
(* The driving interface: MainWindow as the controller uses it             *)
(* progress_calls and dialogs are the calls it has received, in order.     *)

RatMin(x, y) == IF RatGe(y, x) THEN x ELSE y
RatMax(x, y) == IF RatGe(x, y) THEN x ELSE y
Hundred == Rat(100, 1)

\* self.current_progress = max(0, min(100, progress))
update_progress(ui, progress, status) ==
  [ui EXCEPT !.current_progress = RatMax(Zero, RatMin(Hundred, progress)),
             !.current_status = status,
             !.progress_calls = Append(@, [progress |-> progress, status |-> status])]
set_merge_state(ui, is_merging) == [ui EXCEPT !.is_merging = is_merging]
show_error(ui, message) ==
  [ui EXCEPT !.dialogs = Append(@, [kind |-> "error", message |-> message])]
show_success(ui, message) ==
  [ui EXCEPT !.dialogs = Append(@, [kind |-> "success", message |-> message])]

-----------------------------------------------------------------------------
(* The merge run: MergeController.start_merge, cancel_merge and the thread *)
(* of _merge_process, one action per stage and one per poll of the         *)
(* cancellation flag.                                                      *)

VARIABLES
  reference_file,     \* the arguments of start_merge
  merge_files,
  pc,                 \* where the thread of _merge_process stands
  resume,             \* the stage after the poll
  file_i,             \* the candidate file the loop is at (from 1)
  current_step,
  total_steps,
  is_processing,
  is_cancelled,
  current_progress,
  current_status,
  validation_passed,
  change_logs,        \* MergeController.change_logs, the error log
  normalizer,         \* DataNormalizer: change_logs and its history
  format_standards,
  merged_data,
  processing_errors,
  combined_data,
  validation_result,
  output,             \* the output file: written, and the sheets written
  ui,
  stages,             \* the stages the thread has entered, in order
  call,               \* a function under check: its name and arguments
  returned,           \* and what it returned
  threads             \* the threads several start_merge calls have started

runVars ==
  <<reference_file, merge_files, pc, resume, file_i, current_step, total_steps,
    is_processing, is_cancelled, current_progress, current_status, validation_passed,
    change_logs, normalizer, format_standards, merged_data, processing_errors,
    combined_data, validation_result, output, ui, stages>>
callVars == <<call, returned, pads_year, threads>>
vars == <<runVars, callVars>>

\* MergeController.__init__ and MainWindow.__init__
InitRun ==
  /\ reference_file = <<>>
  /\ merge_files = <<>>
  /\ pc = "Idle"
  /\ resume = "Idle"
  /\ file_i = 0
  /\ current_step = 0
  /\ total_steps = 0
  /\ is_processing = FALSE
  /\ is_cancelled = FALSE
  /\ current_progress = Zero
  /\ current_status = "ready"
  /\ validation_passed = FALSE
  /\ change_logs = <<>>
  /\ normalizer = Normalizer(<<>>, <<>>)
  /\ format_standards = <<>>
  /\ merged_data = <<>>
  /\ processing_errors = <<>>
  /\ combined_data = <<>>
  /\ validation_result = [success |-> FALSE, issues |-> <<>>]
  /\ output = [written |-> FALSE, sheets |-> <<>>]
  /\ ui = [is_merging |-> FALSE, current_progress |-> Zero, current_status |-> "ready",
           progress_calls |-> <<>>, dialogs |-> <<>>]
  /\ stages = <<>>
  /\ threads = <<>>

NoCall == [op |-> "none", args |-> <<>>, done |-> FALSE]

\* a run writes no date: its columns are text columns
Init ==
  /\ InitRun
  /\ pads_year = TRUE
  /\ call = NoCall
  /\ returned = <<>>

\* the progress over the six stages alone
ProgressOverStages(step, total) == Rat(step, 6)

\* current_step / total_steps
Progress(step, total) == Rat(step, total)
\* self.current_progress = progress * 100
Percent(progress) == Rat(progress[1] * 100, progress[2])

\* start_merge: the interface's start button, enabled while no run is on
\* (the model follows one run, from the first start_merge to its terminal state)
StartMerge ==
  /\ pc = "Idle"
  /\ ~is_processing
  /\ \E ref \in RefFiles, files \in FileLists(MaxFiles) :
       /\ reference_file' = ref
       /\ merge_files' = files
  /\ ui' = update_progress(set_merge_state(ui, TRUE), Zero, "starting")
  /\ pc' = "Spawned"
  /\ UNCHANGED <<resume, file_i, current_step, total_steps, is_processing, is_cancelled,
                 current_progress, current_status, validation_passed, change_logs,
                 normalizer, format_standards, merged_data, processing_errors,
                 combined_data, validation_result, output, stages, callVars>>

\* cancel_merge: the interface's cancel button, enabled while it is merging
CancelMerge ==
  /\ ui.is_merging
  /\ is_cancelled' = TRUE
  /\ current_status' = "cancelling"
  /\ UNCHANGED <<reference_file, merge_files, pc, resume, file_i, current_step,
                 total_steps, is_processing, current_progress, validation_passed,
                 change_logs, normalizer, format_standards, merged_data,
                 processing_errors, combined_data, validation_result, output, ui,
                 stages, callVars>>

\* _merge_process up to its first stage
ThreadBegin ==
  /\ pc = "Spawned"
  /\ is_processing' = TRUE
  /\ is_cancelled' = FALSE
  /\ current_progress' = Zero
  /\ validation_passed' = FALSE
  /\ total_steps' = 6 + Len(merge_files)
  /\ current_step' = 0
  /\ pc' = "Analyze"
  /\ UNCHANGED <<reference_file, merge_files, resume, file_i, current_status, change_logs,
                 normalizer, format_standards, merged_data, processing_errors,
                 combined_data, validation_result, output, ui, stages, callVars>>

\* a stage begins
StageBegins(stage) ==
  /\ pc = stage
  /\ stages' = Append(stages, stage)

\* the interface after the stage's _update_progress
Reported(stage) == update_progress(ui, Percent(Progress(current_step, total_steps)), stage)

\* a stage ends: after its _update_progress(current_step / total_steps, message)
\* and its work, current_step += 1, and the poll comes next
StageEnds(stage, next) ==
  /\ current_step' = current_step + 1
  /\ current_progress' = Percent(Progress(current_step, total_steps))
  /\ current_status' = stage
  /\ ui' = Reported(stage)
  /\ pc' = "Poll"
  /\ resume' = next
  /\ UNCHANGED is_processing

\* a stage raises and the except clause handles it, without the finally
\* clause: the processing flag and the merge state of the interface stay
StageRaisesWithoutFinally(stage, error_message) ==
  /\ current_progress' = Percent(Progress(current_step, total_steps))
  /\ current_status' = "error"
  /\ ui' = show_error(Reported(stage), error_message)
  /\ UNCHANGED is_processing
  /\ pc' = "Failed"
  /\ UNCHANGED <<current_step, resume>>

\* a stage raises after its _update_progress: except ...
\* self._handle_error(str(e)), and finally
StageRaises(stage, error_message) ==
  /\ current_progress' = Percent(Progress(current_step, total_steps))
  /\ current_status' = "error"
  /\ ui' = set_merge_state(show_error(Reported(stage), error_message), FALSE)
  /\ is_processing' = FALSE
  /\ pc' = "Failed"
  /\ UNCHANGED <<current_step, resume>>

\* the poll without the test of is_cancelled
PollIgnoringFlag ==
  /\ pc = "Poll"
  /\ pc' = resume
  /\ UNCHANGED <<reference_file, merge_files, resume, file_i, current_step, total_steps,
                 is_processing, is_cancelled, current_progress, current_status,
                 validation_passed, change_logs, normalizer, format_standards,
                 merged_data, processing_errors, combined_data, validation_result,
                 output, ui, stages, callVars>>

\* if self.is_cancelled: self._handle_cancellation(); return, and finally
Poll ==
  /\ pc = "Poll"
  /\ IF is_cancelled
     THEN /\ current_status' = "cancelled"
          /\ ui' = set_merge_state(update_progress(ui, Zero, "cancelled"), FALSE)
          /\ is_processing' = FALSE
          /\ pc' = "Cancelled"
     ELSE /\ pc' = resume
          /\ UNCHANGED <<current_status, ui, is_processing>>
  /\ UNCHANGED <<reference_file, merge_files, resume, file_i, current_step, total_steps,
                 is_cancelled, current_progress, validation_passed, change_logs,
                 normalizer, format_standards, merged_data, processing_errors,
                 combined_data, validation_result, output, stages, callVars>>

\* 1. the reference file is analysed
AnalyzeReference ==
  /\ StageBegins("Analyze")
  /\ IF read_file_structure(reference_file).error_message
     THEN StageRaises("Analyze", "reference_analysis_failed")
     ELSE IF read_file_structure(reference_file).sheets = <<>>
     THEN StageRaises("Analyze", "no_valid_sheets")
     ELSE StageEnds("Analyze", "Compatibility")
  /\ UNCHANGED <<reference_file, merge_files, file_i, total_steps, is_cancelled,
                 validation_passed, change_logs, normalizer, format_standards,
                 merged_data, processing_errors, combined_data, validation_result,
                 output, callVars>>

\* 2. the compatibility of the files is validated
ValidateCompatibility ==
  /\ StageBegins("Compatibility")
  /\ validation_result' = _validate_files_compatibility(reference_file, merge_files)
  /\ IF ~validation_result'.success
     THEN StageRaises("Compatibility", "compatibility_failed")
     ELSE StageEnds("Compatibility", "Extract")
  /\ UNCHANGED <<reference_file, merge_files, file_i, total_steps, is_cancelled,
                 validation_passed, change_logs, normalizer, format_standards,
                 merged_data, processing_errors, combined_data, output, callVars>>

\* 3. the format standards are extracted
ExtractFormatStandards ==
  /\ StageBegins("Extract")
  /\ format_standards' = _extract_format_standards(reference_file)
  /\ merged_data' = <<>>
  /\ processing_errors' = <<>>
  /\ file_i' = 1
  /\ StageEnds("Extract", "ProcessFile")
  /\ UNCHANGED <<reference_file, merge_files, total_steps, is_cancelled,
                 validation_passed, change_logs, normalizer, combined_data,
                 validation_result, output, callVars>>

\* self._log_error(error_msg)
_log_error(logs, error_message) == Append(logs, error_message)

\* the try/except around _process_merge_file with `except: pass`
FileProcessedUnrecorded(merge_file, processed) ==
  /\ normalizer' = processed.normalizer
  /\ IF processed.raised
     THEN UNCHANGED <<merged_data, processing_errors, change_logs>>
     ELSE /\ merged_data' = MergeFileDataFrom(merged_data, processed.result_data, 1)
          /\ UNCHANGED <<processing_errors, change_logs>>

\* the try/except around _process_merge_file: its data is merged, or its
\* error is recorded
FileProcessed(merge_file, processed) ==
  /\ normalizer' = processed.normalizer
  /\ IF processed.raised
     THEN /\ processing_errors' =
               Append(processing_errors,
                      [error |-> "file_processing_error", file |-> merge_file.file_name])
          /\ change_logs' =
               _log_error(change_logs,
                          [error |-> "file_processing_error", file |-> merge_file.file_name])
          /\ UNCHANGED merged_data
     ELSE /\ merged_data' = MergeFileDataFrom(merged_data, processed.result_data, 1)
          /\ UNCHANGED <<processing_errors, change_logs>>

\* 4. one candidate file is processed
ProcessFile ==
  /\ StageBegins("ProcessFile")
  /\ file_i <= Len(merge_files)
  /\ FileProcessed(merge_files[file_i],
                   _process_merge_file(merge_files[file_i], reference_file,
                                       format_standards, normalizer))
  /\ file_i' = file_i + 1
  /\ StageEnds("ProcessFile",
               IF file_i < Len(merge_files) THEN "ProcessFile" ELSE "Combine")
  /\ UNCHANGED <<reference_file, merge_files, total_steps, is_cancelled,
                 validation_passed, format_standards, combined_data, validation_result,
                 output, callVars>>

\* the result of _combine_sheet_data is kept, or its exception ends the run
Combined(combined) ==
  IF combined.raised
  THEN /\ StageRaises("Combine", "sheet_data_read_error")
       /\ UNCHANGED combined_data
  ELSE /\ StageEnds("Combine", "ValidateQuality")
       /\ combined_data' = combined.combined_data

\* 5. the data of the sheets is combined
Combine ==
  /\ StageBegins("Combine")
  /\ Combined(_combine_sheet_data(merged_data, reference_file, normalizer.change_logs))
  /\ UNCHANGED <<reference_file, merge_files, file_i, total_steps, is_cancelled,
                 validation_passed, change_logs, normalizer, format_standards,
                 merged_data, processing_errors, validation_result, output, callVars>>

\* 6. the quality of the merged data is validated
ValidateQuality ==
  /\ StageBegins("ValidateQuality")
  /\ validation_result' = _validate_merged_data(combined_data, reference_file.sheets)
  /\ IF ~validation_result'.success
     THEN /\ change_logs' = _log_error(change_logs, [error |-> "quality_warning"])
          /\ UNCHANGED validation_passed
     ELSE /\ validation_passed' = TRUE
          /\ UNCHANGED change_logs
  /\ StageEnds("ValidateQuality", "Save")
  /\ UNCHANGED <<reference_file, merge_files, file_i, total_steps, is_cancelled,
                 normalizer, format_standards, merged_data, processing_errors,
                 combined_data, output, callVars>>

\* the terminal state without the test of validation_passed
OutcomeCompleted(passed) == "Completed"

\* the terminal state of a run that saved its result
Outcome(passed) == IF passed THEN "Completed" ELSE "CompletedWithWarnings"

\* 7. the result is saved; the writer of the output file succeeds or raises
Save ==
  /\ StageBegins("Save")
  /\ \E writer_ok \in BOOLEAN :
       IF writer_ok
       THEN /\ output' = [written |-> TRUE, sheets |-> combined_data]
            /\ current_progress' = Percent(One)
            /\ current_status' = "completed"
            /\ ui' = set_merge_state(
                       show_success(update_progress(Reported("Save"), Percent(One), "done"),
                                    Outcome(validation_passed)),
                       FALSE)
            /\ is_processing' = FALSE
            /\ pc' = Outcome(validation_passed)
            /\ UNCHANGED <<current_step, resume>>
       ELSE /\ StageRaises("Save", "save_failed")
            /\ UNCHANGED output
  /\ UNCHANGED <<reference_file, merge_files, file_i, total_steps, is_cancelled,
                 validation_passed, change_logs, normalizer, format_standards,
                 merged_data, processing_errors, combined_data, validation_result,
                 callVars>>

Next ==
  \/ StartMerge
  \/ CancelMerge
  \/ ThreadBegin
  \/ Poll
  \/ AnalyzeReference
  \/ ValidateCompatibility
  \/ ExtractFormatStandards
  \/ ProcessFile
  \/ Combine
  \/ ValidateQuality
  \/ Save

Spec == Init /\ [][Next]_vars

\* the thread does not stay at the stage for ever. The step of a stage is
\* enabled in every state with pc at the stage and leaves the stage, so for
\* that step A this is WF_vars(A) with ENABLED <<A>>_vars written out.
Terminates(stage) == []<>(pc # stage)

\* a thread that was started is scheduled, its polls and stages are
\* executed, and each stage terminates
LiveSpec ==
  /\ Spec
  /\ WF_vars(ThreadBegin)
  /\ WF_vars(Poll)
  /\ WF_vars(AnalyzeReference)
  /\ WF_vars(ValidateCompatibility)
  /\ Terminates("Extract")
  /\ Terminates("ProcessFile")
  /\ Terminates("Combine")
  /\ WF_vars(ValidateQuality)
  /\ WF_vars(Save)

-----------------------------------------------------------------------------
(* Several start_merge calls on one controller. Every call that returns    *)
(* True starts a thread of _merge_process; the threads share the fields of *)
(* the controller (is_processing, is_cancelled, validation_passed,         *)
(* change_logs, the normalizer) and the interface. What a stage does with  *)
(* the files is followed in Spec; here a stage ends or raises, and the     *)
(* entries it logs carry the number of the run that logged them.           *)

MaxStarts == 2

\* the fields the threads keep for themselves or that this specification
\* does not follow
runLocals ==
  <<reference_file, merge_files, pc, resume, file_i, current_step, total_steps,
    current_progress, current_status, format_standards, merged_data, processing_errors,
    combined_data, validation_result, output, stages, call, pads_year>>

InitRuns ==
  /\ InitRun
  /\ pads_year = TRUE
  /\ call = NoCall
  /\ returned = <<>>

\* a thread: where it stands, the stage after its poll, whether a file of
\* the run gave merged data, the runs whose records its annotations were
\* written from and the runs whose entries its completion report lists
Thread(at, next, notes, report) ==
  [pc |-> at, resume |-> next, merged |-> FALSE, notes |-> notes, report |-> report]

\* the runs of the entries of a log
RunsOf(logs) == {logs[k].run : k \in 1..Len(logs)}

\* start_merge: False while is_processing or for files that are missing,
\* otherwise the interface is told, the thread is started and True returned
StartMergeCall ==
  /\ Len(returned) < MaxStarts
  /\ \E files_valid \in BOOLEAN :
       IF is_processing \/ ~files_valid
       THEN /\ returned' = Append(returned, FALSE)
            /\ UNCHANGED <<ui, threads>>
       ELSE /\ ui' = [ui EXCEPT !.is_merging = TRUE]
            /\ threads' = Append(threads, Thread("Spawned", "Spawned", {}, {}))
            /\ returned' = Append(returned, TRUE)
  /\ UNCHANGED <<runLocals, is_processing, is_cancelled, validation_passed, change_logs,
                 normalizer>>

\* cancel_merge
CancelMergeCall ==
  /\ ui.is_merging
  /\ is_cancelled' = TRUE
  /\ UNCHANGED <<runLocals, is_processing, validation_passed, change_logs, normalizer, ui,
                 returned, threads>>

\* the first statements of _merge_process
ThreadBegins(t) ==
  /\ threads[t].pc = "Spawned"
  /\ is_processing' = TRUE
  /\ is_cancelled' = FALSE
  /\ validation_passed' = FALSE
  /\ threads' = [threads EXCEPT ![t].pc = "Analyze"]
  /\ UNCHANGED <<runLocals, change_logs, normalizer, ui, returned>>

\* the thread leaves _merge_process: finally
Leaves(t, outcome) ==
  /\ is_processing' = FALSE
  /\ ui' = [ui EXCEPT !.is_merging = FALSE]
  /\ threads' = [threads EXCEPT ![t].pc = outcome]

\* the stage is done and the poll comes next
Goes(t, next) ==
  /\ threads' = [threads EXCEPT ![t].pc = "Poll", ![t].resume = next]
  /\ UNCHANGED <<is_processing, ui>>

\* stages 1 to 3: the analysis of the reference file or the compatibility
\* check raises, or the stage ends
RunPrepare(t) ==
  /\ threads[t].pc \in {"Analyze", "Compatibility", "Extract"}
  /\ \E raises \in BOOLEAN :
       IF raises /\ threads[t].pc # "Extract"
       THEN Leaves(t, "Failed")
       ELSE Goes(t, IF threads[t].pc = "Analyze" THEN "Compatibility"
                    ELSE IF threads[t].pc = "Compatibility" THEN "Extract"
                    ELSE "ProcessFile")
  /\ UNCHANGED <<runLocals, is_cancelled, validation_passed, change_logs, normalizer,
                 returned>>

\* stage 4, for one candidate file: the file raises and the error is logged,
\* or normalize_data empties the normalizer's log and records the changes of
\* the file, or no sheet of the file is matched
RunProcessFile(t) ==
  /\ threads[t].pc = "ProcessFile"
  /\ \E file \in {"raises", "normalized", "unmatched"} :
       /\ change_logs' = IF file = "raises"
                         THEN _log_error(change_logs, [run |-> t, error |-> "file_processing_error"])
                         ELSE change_logs
       /\ normalizer' = IF file = "normalized"
                        THEN [normalizer EXCEPT !.change_logs = <<[run |-> t]>>]
                        ELSE normalizer
       /\ threads' = [threads EXCEPT ![t].pc = "Poll", ![t].resume = "Combine",
                                     ![t].merged = (file = "normalized")]
  /\ UNCHANGED <<is_processing, ui>>
  /\ UNCHANGED <<runLocals, is_cancelled, validation_passed, returned>>

\* stage 5: the annotations of the sheets with merged data are written from
\* the normalizer's log
RunCombine(t) ==
  /\ threads[t].pc = "Combine"
  /\ \E raises \in BOOLEAN :
       IF raises
       THEN Leaves(t, "Failed")
       ELSE /\ threads' = [threads EXCEPT ![t].pc = "Poll", ![t].resume = "ValidateQuality",
                                          ![t].notes = IF threads[t].merged
                                                       THEN RunsOf(normalizer.change_logs)
                                                       ELSE {}]
            /\ UNCHANGED <<is_processing, ui>>
  /\ UNCHANGED <<runLocals, is_cancelled, validation_passed, change_logs, normalizer,
                 returned>>

\* stage 6: an issue is logged, or validation_passed is set
RunValidateQuality(t) ==
  /\ threads[t].pc = "ValidateQuality"
  /\ \E success \in BOOLEAN :
       IF success
       THEN /\ validation_passed' = TRUE
            /\ UNCHANGED change_logs
       ELSE /\ change_logs' = _log_error(change_logs, [run |-> t, error |-> "quality_warning"])
            /\ UNCHANGED validation_passed
  /\ Goes(t, "Save")
  /\ UNCHANGED <<runLocals, is_cancelled, normalizer, returned>>

\* stage 7: the writer raises, or the file is written and the completion
\* report lists the last ten entries of change_logs
RunSave(t) ==
  /\ threads[t].pc = "Save"
  /\ \E writer_ok \in BOOLEAN :
       IF writer_ok
       THEN /\ is_processing' = FALSE
            /\ ui' = [ui EXCEPT !.is_merging = FALSE]
            /\ threads' = [threads EXCEPT ![t].pc = Outcome(validation_passed),
                                          ![t].report = RunsOf(change_logs)]
       ELSE Leaves(t, "Failed")
  /\ UNCHANGED <<runLocals, is_cancelled, validation_passed, change_logs, normalizer,
                 returned>>

\* if self.is_cancelled: self._handle_cancellation(); return
RunPoll(t) ==
  /\ threads[t].pc = "Poll"
  /\ IF is_cancelled
     THEN Leaves(t, "Cancelled")
     ELSE /\ threads' = [threads EXCEPT ![t].pc = threads[t].resume]
          /\ UNCHANGED <<is_processing, ui>>
  /\ UNCHANGED <<runLocals, is_cancelled, validation_passed, change_logs, normalizer,
                 returned>>

ThreadStep(t) ==
  \/ ThreadBegins(t)
  \/ RunPrepare(t)
  \/ RunProcessFile(t)
  \/ RunCombine(t)
  \/ RunValidateQuality(t)
  \/ RunSave(t)
  \/ RunPoll(t)

NextRuns ==
  \/ StartMergeCall
  \/ CancelMergeCall
  \/ \E t \in 1..Len(threads) : ThreadStep(t)

SpecRuns == InitRuns /\ [][NextRuns]_vars

\* every thread that was started is scheduled and its stages terminate
LiveRuns == SpecRuns /\ \A t \in 1..MaxStarts : WF_vars(t <= Len(threads) /\ ThreadStep(t))

-----------------------------------------------------------------------------
(* match_columns on its own: every list of at most MaxColumns reference    *)
(* columns, every list of at most MaxColumns candidate columns, and the    *)
(* thresholds of Thresholds                                                *)

MaxColumns == 2

ColumnNames == {s_IReum, s_SeongMyeong, s_name, s_Name, s_BuSeo, s_Tim}
Thresholds == {Zero, COLUMN_SIMILARITY_THRESHOLD, Rat(9, 10), One}

\* the lists of at most n column names
RECURSIVE ColumnLists(_)
ColumnLists(n) ==
  IF n = 0 THEN {<<>>}
  ELSE ColumnLists(n - 1)
       \cup {Append(columns, c) : columns \in ColumnLists(n - 1), c \in ColumnNames}

InitMatch ==
  /\ InitRun
  /\ pads_year = TRUE
  /\ \E reference_columns \in ColumnLists(MaxColumns),
        target_columns \in ColumnLists(MaxColumns),
        threshold \in Thresholds :
       call = [op |-> "match_columns",
               args |-> <<reference_columns, target_columns, threshold>>,
               done |-> FALSE]
  /\ returned = <<>>

MatchColumns ==
  /\ call.op = "match_columns"
  /\ ~call.done
  /\ returned' = match_columns(call.args[1], call.args[2], call.args[3])
  /\ call' = [call EXCEPT !.done = TRUE]
  /\ UNCHANGED <<runVars, pads_year, threads>>

NextMatch == MatchColumns

SpecMatch == InitMatch /\ [][NextMatch]_vars

\* C1: the mapping match_columns returns is injective: no candidate column
\* is the value of two distinct reference columns.
C1_MatchColumnsInjective ==
  (call.op = "match_columns" /\ call.done) =>
    \A i, j \in 1..Len(returned) :
      returned[i][2] = returned[j][2] => returned[i][1] = returned[j][1]

\* match_columns has returned a mapping in which a later reference column
\* got another candidate than the one an earlier reference column consumed,
\* although the consumed one scores at least as high for it
C1_Witness ==
  /\ call.op = "match_columns"
  /\ call.done
  /\ \E i, j \in 1..Len(returned) :
       /\ i < j
       /\ returned[i][2] # returned[j][2]
       /\ RatGe(Similarity(returned[j][1], returned[i][2]), call.args[3])
       /\ RatGe(Similarity(returned[j][1], returned[i][2]),
                Similarity(returned[j][1], returned[j][2]))

-----------------------------------------------------------------------------
(* The merge run                                                           *)

Terminal == {"Completed", "CompletedWithWarnings", "Failed", "Cancelled"}

\* the stage the thread entered last
LastStage == stages[Len(stages)]

ErrorDialogs == SelectSeq(ui.dialogs, LAMBDA d : d.kind = "error")
SuccessDialogs == SelectSeq(ui.dialogs, LAMBDA d : d.kind = "success")

\* the records of a kind in the log of the normalizer
RecordsOfKind(logs, change_type) ==
  SelectSeq(logs, LAMBDA log : log.change_type = change_type)

\* no sheet of the file scores SIMILARITY_THRESHOLD or more with a sheet of
\* the reference file
NoSheetMatches(reference, file) ==
  \A i \in 1..Len(reference.sheets), j \in 1..Len(file.sheets) :
    ~RatGe(Similarity(reference.sheets[i].name, file.sheets[j].name),
           SIMILARITY_THRESHOLD)

\* C2: within a run the log of change records is append-only: when the
\* Combine stage reads it and when the run ends, it holds every record
\* appended during the run, unmodified and in the order of appending.
C2_LogAppendOnly ==
  (pc \in {"Combine"} \cup Terminal) => normalizer.change_logs = normalizer.appended

\* C3 as written: a run whose reference file was analysed never ends in
\* Failed because of a compatibility issue (the stage Validate Compatibility
\* is never the one the run fails in).
C3_CompatibilityIssueNotFatal ==
  (pc = "Failed" /\ Len(stages) >= 2) => LastStage # "Compatibility"

\* C3 amended: if a candidate file that can be analysed has no sheet that
\* matches a reference sheet, Validate Compatibility records the issue for
\* that file and the run ends there in Failed with one error message: no
\* later stage is entered and nothing is written.
C3_CompatibilityIssueFatal ==
  \A k \in 1..Len(merge_files) :
    (/\ Len(stages) >= 2
     /\ ~read_file_structure(merge_files[k]).error_message
     /\ NoSheetMatches(reference_file, merge_files[k])) =>
      /\ pc = "Failed"
      /\ stages = <<"Analyze", "Compatibility">>
      /\ \E n \in 1..Len(validation_result.issues) :
           validation_result.issues[n] = [file |-> k, issue |-> "no_matching_sheet"]
      /\ Len(ErrorDialogs) = 1
      /\ SuccessDialogs = <<>>
      /\ ~output.written

\* a run has failed in Validate Compatibility on a candidate file without a
\* matching sheet
C3_Witness ==
  /\ pc = "Failed"
  /\ stages = <<"Analyze", "Compatibility">>
  /\ \E k \in 1..Len(merge_files) :
       /\ ~read_file_structure(merge_files[k]).error_message
       /\ NoSheetMatches(reference_file, merge_files[k])

\* C4: when a poll sees the cancellation flag set the run ends in
\* Cancelled; from then on no stage is entered, and in Cancelled the Save
\* stage was never entered, no output file is written and neither the
\* success nor the error callback was issued.
C4_CancelledAtPoll ==
  /\ [][(pc = "Poll" /\ is_cancelled /\ pc' # pc) =>
          (pc' = "Cancelled" /\ stages' = stages /\ output' = output)]_vars
  /\ [][pc = "Cancelled" => (pc' = "Cancelled" /\ stages' = stages /\ output' = output
                             /\ ui'.dialogs = ui.dialogs)]_vars
  /\ [](pc = "Cancelled" =>
          (/\ ~InSeq("Save", stages)
           /\ ~output.written
           /\ ui.dialogs = <<>>
           /\ ~is_processing
           /\ ~ui.is_merging))

\* a run was cancelled at the poll after its third stage or later
C4_Witness ==
  /\ pc = "Cancelled"
  /\ Len(stages) >= 3
  /\ ~InSeq("Save", stages)

\* the rows of a frame restricted to the columns named
RowsOver(df, columns) ==
  {[c \in 1..Len(columns) |-> df.rows[r][ColumnIndex(df, columns[c])]] :
     r \in 1..Len(df.rows)}

\* C5: the synonym scenario.  With the reference sheet Employees (columns
\* name, department, salary in Korean) and one candidate file whose sheet
\* and columns are the synonyms, the run completes (it fails only if the
\* writer of the output file does), the result has exactly the sheet
\* Employees, the candidate's row fills the three reference columns, and
\* the log ends with one sheet_mapping record and three column_mapping
\* records.
C5_SynonymScenario ==
  (reference_file = RefEmployees /\ merge_files = <<CandSynonyms>>) =>
    /\ (pc = "Failed" => LastStage = "Save")
    /\ (pc \in {"Completed", "CompletedWithWarnings"} =>
          /\ DictKeys(output.sheets) = {s_Employees}
          /\ <<Text(s_lee), Text(s_IT), Text(s_low)>>
               \in RowsOver(DictGet(output.sheets, s_Employees),
                            <<s_IReum, s_BuSeo, s_YeonBong>>)
          /\ Len(RecordsOfKind(normalizer.change_logs, "sheet_mapping")) = 1
          /\ Len(RecordsOfKind(normalizer.change_logs, "column_mapping")) = 3)

\* C6 as written: a file-level failure of a candidate file never ends the
\* run in Failed: when every candidate file either fails at file level or
\* has a matching sheet, the run does not fail in Validate Compatibility.
C6_FileFailureNotFatal ==
  (/\ pc = "Failed"
   /\ Len(stages) >= 2
   /\ \A k \in 1..Len(merge_files) :
        \/ read_file_structure(merge_files[k]).error_message
        \/ ~NoSheetMatches(reference_file, merge_files[k])) =>
    LastStage # "Compatibility"

\* the candidate file can be analysed and has a matching sheet, and reading
\* the data of its sheets raises
ProcessingRaises(reference, file) ==
  /\ ~read_file_structure(file).error_message
  /\ ~NoSheetMatches(reference, file)
  /\ file.data_error

\* the files whose iteration of the processing loop is over
FilesProcessed == Len(SelectSeq(stages, LAMBDA stage : stage = "ProcessFile"))

\* the frames the processed files have contributed
RECURSIVE FramesFrom(_, _)
FramesFrom(data, i) ==
  IF i > Len(data) THEN 0 ELSE Len(data[i][2]) + FramesFrom(data, i + 1)

\* C6 amended: if the processing of a candidate file raises, that file alone
\* is excluded: its error is recorded once, it contributes no data, and the
\* run goes on with the files after it and with Combine, Validate Quality
\* and Save (it can still fail in Combine or Save only); a candidate file
\* that cannot be analysed is a compatibility issue and ends the run in
\* Failed at Validate Compatibility.
C6_ProcessingErrorExcludesFile ==
  LET processed == SubSeq(merge_files, 1, FilesProcessed)
      raising == SelectSeq(processed, LAMBDA f : ProcessingRaises(reference_file, f))
  IN  /\ Len(processing_errors) = Len(raising)
      /\ \A n \in 1..Len(raising) :
           /\ processing_errors[n].file = raising[n].file_name
           /\ InSeq([error |-> "file_processing_error", file |-> raising[n].file_name],
                    change_logs)
      /\ FramesFrom(merged_data, 1) = Len(processed) - Len(raising)
      /\ (raising # <<>> /\ pc = "Failed") => LastStage \in {"Combine", "Save"}
      /\ (raising # <<>> /\ pc = "Poll" /\ LastStage = "ProcessFile") =>
           resume = IF FilesProcessed < Len(merge_files) THEN "ProcessFile" ELSE "Combine"
      /\ \A k \in 1..Len(merge_files) :
           (Len(stages) >= 2 /\ read_file_structure(merge_files[k]).error_message) =>
             (pc = "Failed" /\ stages = <<"Analyze", "Compatibility">>)

\* a run has saved its result although the processing of one of its two
\* candidate files raised
C6_Witness ==
  /\ pc \in {"Completed", "CompletedWithWarnings"}
  /\ output.written
  /\ Len(merge_files) = 2
  /\ \E k, j \in 1..2 :
       /\ ProcessingRaises(reference_file, merge_files[k])
       /\ ~ProcessingRaises(reference_file, merge_files[j])
  /\ Len(processing_errors) = 1

\* C7: if the analysis of the reference file reports an error or yields no
\* usable sheet, the run ends in Failed with a single error message: only
\* the stage Analyze was entered (no candidate file is processed, Combine
\* and Save are never entered), no output file is written and
\* validation_passed stays false.
C7_ReferenceAnalysisFails ==
  (Len(stages) >= 1 /\ (reference_file.error \/ reference_file.sheets = <<>>)) =>
    /\ pc = "Failed"
    /\ stages = <<"Analyze">>
    /\ Len(ui.dialogs) = 1
    /\ ui.dialogs[1].kind = "error"
    /\ merged_data = <<>>
    /\ processing_errors = <<>>
    /\ ~output.written
    /\ ~validation_passed
    /\ ~is_processing

\* a run on a reference file whose analysis reports an error has ended
C7_Witness ==
  /\ pc = "Failed"
  /\ reference_file.error
  /\ reference_file.sheets # <<>>
  /\ Len(ErrorDialogs) = 1

\* C8: an issue of the quality validation never prevents the save: once
\* Validate Quality has run, the run is on its way to Save, has entered
\* Save, or was cancelled at the poll between them; a run that has saved
\* its result ends as CompletedWithWarnings (validation_passed false, the
\* warning logged) exactly when the validation found an issue and as
\* Completed (validation_passed true) exactly when it found none.
C8_QualityIssueNeverPreventsSave ==
  /\ InSeq("ValidateQuality", stages) =>
       \/ pc = "Poll" /\ resume = "Save"
       \/ pc = "Save"
       \/ pc = "Cancelled" /\ LastStage = "ValidateQuality"
       \/ InSeq("Save", stages)
  /\ output.written =>
       /\ pc \in {"Completed", "CompletedWithWarnings"}
       /\ InSeq("ValidateQuality", stages)
       /\ (pc = "CompletedWithWarnings" <=> validation_result.issues # <<>>)
       /\ (pc = "Completed" <=> validation_result.issues = <<>>)
       /\ validation_passed = (validation_result.issues = <<>>)
       /\ InSeq([error |-> "quality_warning"], change_logs)
            = (validation_result.issues # <<>>)
       /\ Len(SuccessDialogs) = 1
       /\ SuccessDialogs[1].message = pc
  /\ pc \in {"Completed", "CompletedWithWarnings"} => output.written

\* a run whose quality validation found an issue has saved its result
C8_Witness ==
  /\ pc = "CompletedWithWarnings"
  /\ output.written
  /\ validation_result.issues # <<>>
  /\ LastStage = "Save"

-----------------------------------------------------------------------------
(* _validate_merged_data on its own: the reference sheets ReferenceSheets  *)
(* and every combined result that holds, for each of them, no frame or a   *)
(* frame of at most MaxRows rows over one of the column lists FrameColumns *)

MaxRows == 2

ReferenceSheets ==
  <<Sheet(s_Employees, <<s_IReum, s_BuSeo>>, <<>>),
    Sheet(s_JikWonJeongBo, <<s_IReum>>, <<>>)>>

FrameColumns == {<<s_IReum, s_BuSeo>>, <<s_BuSeo, s_IReum>>, <<s_IReum>>, <<s_BuSeo>>, <<>>}
CellValues == {NaN, Text(s_KIM)}

\* the lists of at most n rows over the columns
RECURSIVE RowLists(_, _)
RowLists(columns, n) ==
  IF n = 0 THEN {<<>>}
  ELSE RowLists(columns, n - 1)
       \cup {Append(rows, row) : rows \in RowLists(columns, n - 1),
                                 row \in [1..Len(columns) -> CellValues]}

Frames ==
  UNION {{Frame(columns, rows) : rows \in RowLists(columns, MaxRows)} :
           columns \in FrameColumns}
\* the combined results: a dict with a frame for the first sheet, for the
\* second, for both or for none
CombinedResults ==
  {<<>>}
  \cup {<<<<ReferenceSheets[1].name, first>>>> : first \in Frames}
  \cup {<<<<ReferenceSheets[2].name, second>>>> : second \in Frames}
  \cup {<<<<ReferenceSheets[1].name, first>>, <<ReferenceSheets[2].name, second>>>> :
          first \in Frames, second \in Frames}

InitValidate ==
  /\ InitRun
  /\ pads_year = TRUE
  /\ \E combined \in CombinedResults :
       call = [op |-> "_validate_merged_data", args |-> <<combined, ReferenceSheets>>,
               done |-> FALSE]
  /\ returned = <<>>

ValidateMergedData ==
  /\ call.op = "_validate_merged_data"
  /\ ~call.done
  /\ returned' = _validate_merged_data(call.args[1], call.args[2])
  /\ call' = [call EXCEPT !.done = TRUE]
  /\ UNCHANGED <<runVars, pads_year, threads>>

NextValidate == ValidateMergedData

SpecValidate == InitValidate /\ [][NextValidate]_vars

\* the distinct rows of a frame
DistinctRows(df) == {df.rows[r] : r \in 1..Len(df.rows)}

\* the sheet is in the combined result, it is not empty, it has every
\* reference column and no two of its rows are equal
SheetIsSound(combined, sheet) ==
  /\ DictHas(combined, sheet.name)
  /\ Len(DictGet(combined, sheet.name).rows) > 0
  /\ Len(DictGet(combined, sheet.name).columns) > 0
  /\ \A c \in 1..Len(sheet.columns) :
       \E d \in 1..Len(DictGet(combined, sheet.name).columns) :
         DictGet(combined, sheet.name).columns[d] = sheet.columns[c]
  /\ Cardinality(DistinctRows(DictGet(combined, sheet.name)))
       = Len(DictGet(combined, sheet.name).rows)

\* C9: the quality validation succeeds if and only if every reference
\* sheet is in the combined result, is not empty, has every reference
\* column and has no two equal rows; for a sheet of the result that has
\* data and equal rows, the result carries an issue with the number of
\* duplicate rows: the rows less the distinct rows.
C9_ValidationVerdict ==
  (call.op = "_validate_merged_data" /\ call.done) =>
    /\ returned.success
         <=> \A i \in 1..Len(call.args[2]) : SheetIsSound(call.args[1], call.args[2][i])
    /\ \A i \in 1..Len(call.args[2]) :
         LET sheet == call.args[2][i]
         IN  (/\ DictHas(call.args[1], sheet.name)
              /\ ~empty(DictGet(call.args[1], sheet.name))
              /\ Cardinality(DistinctRows(DictGet(call.args[1], sheet.name)))
                   < Len(DictGet(call.args[1], sheet.name).rows)) =>
               InSeq([issue |-> "duplicates", sheet |-> sheet.name,
                      count |-> Len(DictGet(call.args[1], sheet.name).rows)
                                - Cardinality(DistinctRows(DictGet(call.args[1], sheet.name)))],
                     returned.issues)

\* the validation has found a duplicate row as the only issue of a result
C9_Witness ==
  /\ call.op = "_validate_merged_data"
  /\ call.done
  /\ ~returned.success
  /\ Len(returned.issues) = 1
  /\ returned.issues[1].issue = "duplicates"
  /\ returned.issues[1].count = 1

-----------------------------------------------------------------------------
(* The progress the interface receives                                     *)

\* the progress values of the calls of update_progress, in order
ProgressValues == [i \in 1..Len(ui.progress_calls) |-> ui.progress_calls[i].progress]

\* C10 as written: in every run the progress values the interface receives
\* never decrease and stay within the scale.
C10_ProgressNeverDecreases ==
  /\ \A i \in 1..Len(ProgressValues) :
       RatGe(ProgressValues[i], Zero) /\ RatGe(Hundred, ProgressValues[i])
  /\ \A i \in 1..(Len(ProgressValues) - 1) :
       RatGe(ProgressValues[i + 1], ProgressValues[i])

\* C10 amended: the progress values the interface receives stay within the
\* scale and never decrease, except that a cancelled run ends with a last
\* report of zero; the report of the k-th stage entered is (k - 1) of
\* 6 + the number of candidate files, and the full scale is reported only
\* as the last value of a run that completed.
C10_ProgressExceptCancellation ==
  /\ \A i \in 1..Len(ProgressValues) :
       RatGe(ProgressValues[i], Zero) /\ RatGe(Hundred, ProgressValues[i])
  /\ \A i \in 1..(Len(ProgressValues) - 1) :
       \/ RatGe(ProgressValues[i + 1], ProgressValues[i])
       \/ /\ i + 1 = Len(ProgressValues)
          /\ pc = "Cancelled"
          /\ RatEq(ProgressValues[i + 1], Zero)
  /\ \A k \in 1..Len(stages) :
       /\ Len(ProgressValues) >= k + 1
       /\ RatEq(ProgressValues[k + 1], Rat(100 * (k - 1), 6 + Len(merge_files)))
  /\ \A i \in 1..Len(ProgressValues) :
       RatEq(ProgressValues[i], Hundred) =>
         (i = Len(ProgressValues) /\ pc \in {"Completed", "CompletedWithWarnings"})
  /\ pc \in {"Completed", "CompletedWithWarnings"} =>
       RatEq(ProgressValues[Len(ProgressValues)], Hundred)

\* a run was cancelled after the interface had received a positive value
C10_Witness ==
  /\ pc = "Cancelled"
  /\ \E i \in 1..Len(ProgressValues) : RatGt(ProgressValues[i], Zero)
  /\ RatEq(ProgressValues[Len(ProgressValues)], Zero)

-----------------------------------------------------------------------------
(* The annotation column of the combined sheets *)

\* the file each row of the frames comes from, frame after frame
RECURSIVE SourcesFrom(_, _)
SourcesFrom(dataframes, i) ==
  IF i > Len(dataframes) THEN <<>>
  ELSE [r \in 1..Len(dataframes[i].rows) |->
          str(dataframes[i].rows[r][ColumnIndex(dataframes[i], s_source_file)])]
       \o SourcesFrom(dataframes, i + 1)

\* the rows of the reference sheet as they are read for the combination
ReferenceRows(sheet_name) == read_sheet_data(reference_file, sheet_name).df.rows

\* the annotation of row r (from 1) of a combined sheet
NoteOf(df, r) == ExistingNote(df, r - 1)

\* the combined sheets that received candidate data
SheetsWithCandidateData ==
  {sheet_name \in DictKeys(combined_data) : DictHas(merged_data, sheet_name)}

\* C11: after Combine, in every combined sheet that received candidate
\* data, the annotation of each row contributed by a candidate file contains
\* the name of that file, whatever the name, and the annotation of each row
\* of the reference file contains no source-file note.
C11_SourceNoteOnCandidateRows ==
  \A sheet_name \in SheetsWithCandidateData :
    LET df == DictGet(combined_data, sheet_name)
        first == Len(ReferenceRows(sheet_name))
        sources == SourcesFrom(DictGet(merged_data, sheet_name), 1)
    IN  /\ \A r \in 1..first : ~Contains(NoteOf(df, r), s_ChulCheo)
        /\ \A k \in 1..Len(sources) : Contains(NoteOf(df, first + k), sources[k])

\* the records of the normalization of single cells
PerCellRecords(logs) ==
  SelectSeq(logs, LAMBDA log :
    log.change_type \in {"number_format", "date_format", "text_format"})

\* the annotation describes a normalization of a single cell
HasPerCellNote(note) ==
  \/ Contains(note, s_TekSeuTeuJeongRi)
  \/ Contains(note, s_SusJaHyeongSikByeonGyeong)
  \/ Contains(note, s_NalJjaHyeongSikByeonGyeong)

\* C12: every normalization of a single cell recorded while a candidate file
\* was processed is described in the annotation of a combined row that the
\* file and sheet of the record contributed; no reference row and no row of
\* another file carries such a note, and no such record is left without a
\* note.
C12_PerCellNoteOnChangedRow ==
  \A sheet_name \in SheetsWithCandidateData :
    LET df == DictGet(combined_data, sheet_name)
        first == Len(ReferenceRows(sheet_name))
        sources == SourcesFrom(DictGet(merged_data, sheet_name), 1)
        records == SelectSeq(PerCellRecords(normalizer.appended),
                             LAMBDA log : /\ log.sheet_name = sheet_name
                                          /\ InSeq(log.file_name, sources))
    IN  /\ \A r \in 1..first : ~HasPerCellNote(NoteOf(df, r))
        /\ \A n \in 1..Len(records) :
             /\ \E k \in 1..Len(sources) :
                  /\ sources[k] = records[n].file_name
                  /\ Contains(NoteOf(df, first + k), RowChangeNote(records[n]))
             /\ \A k \in 1..Len(sources) :
                  Contains(NoteOf(df, first + k), RowChangeNote(records[n])) =>
                    sources[k] = records[n].file_name

-----------------------------------------------------------------------------
(* The rows of the combined sheets *)

\* the rows of df over the columns, in order
RowSeqOver(df, columns) ==
  [r \in 1..Len(df.rows) |->
     [c \in 1..Len(columns) |-> df.rows[r][ColumnIndex(df, columns[c])]]]

\* the rows that the candidate files from file k on contribute to the sheet:
\* those of the normalized frame of each file whose processing does not raise
RECURSIVE ContributedRowsFrom(_, _, _)
ContributedRowsFrom(sheet_name, columns, k) ==
  IF k > Len(merge_files) THEN <<>>
  ELSE LET processed == _process_merge_file(merge_files[k], reference_file,
                                            format_standards, Normalizer(<<>>, <<>>))
       IN  (IF ~processed.raised /\ DictHas(processed.result_data, sheet_name)
            THEN RowSeqOver(DictGet(processed.result_data, sheet_name), columns)
            ELSE <<>>)
           \o ContributedRowsFrom(sheet_name, columns, k + 1)

\* the rows of the frames from frame i on
RECURSIVE FramesRows(_, _)
FramesRows(dataframes, i) ==
  IF i > Len(dataframes) THEN 0
  ELSE Len(dataframes[i].rows) + FramesRows(dataframes, i + 1)

\* C13: in every combined sheet the rows of the reference sheet come first
\* and the normalized rows of each contributing candidate file follow in the
\* order the files were given; no row is dropped or duplicated, so the row
\* count is that of the reference sheet plus those of the contributed
\* frames; the combined data and the output have exactly the sheets of the
\* reference file.
C13_CombinedRowsInOrder ==
  /\ combined_data # <<>> =>
       /\ DictKeys(combined_data) =
            {reference_file.sheets[i].name : i \in 1..Len(reference_file.sheets)}
       /\ \A i \in 1..Len(reference_file.sheets) :
            LET sheet == reference_file.sheets[i]
                df == DictGet(combined_data, sheet.name)
                frames == IF DictHas(merged_data, sheet.name)
                          THEN DictGet(merged_data, sheet.name) ELSE <<>>
            IN  /\ RowSeqOver(df, sheet.columns) =
                     ReferenceRows(sheet.name)
                       \o ContributedRowsFrom(sheet.name, sheet.columns, 1)
                /\ Len(df.rows) = Len(ReferenceRows(sheet.name)) + FramesRows(frames, 1)
  /\ output.written =>
       /\ output.sheets = combined_data
       /\ DictKeys(output.sheets) =
            {reference_file.sheets[i].name : i \in 1..Len(reference_file.sheets)}

\* a saved sheet holds the row of the reference and, after it, the rows of
\* two different candidate files in the order given, next to a sheet that
\* received no candidate data
C13_Witness ==
  /\ output.written
  /\ Len(merge_files) = 2
  /\ merge_files[1] # merge_files[2]
  /\ \E s, t \in DictKeys(output.sheets) :
       /\ DictHas(merged_data, s)
       /\ Len(DictGet(merged_data, s)) = 2
       /\ Len(DictGet(output.sheets, s).rows) >= 3
       /\ ~DictHas(merged_data, t)

-----------------------------------------------------------------------------
(* match_sheets on its own: every list of at most MaxSheets reference      *)
(* sheets, every list of at most MaxSheets candidate sheets, and the       *)
(* thresholds of SheetThresholds                                           *)

MaxSheets == 2

SheetNameChoices == {s_Employees, s_JikWonJeongBo, s_employee_info, s_SaWonJeongBo, s_Sheet1}
SheetThresholds == {Zero, SIMILARITY_THRESHOLD, Rat(9, 10), One}

\* the lists of at most n sheet names
RECURSIVE SheetLists(_)
SheetLists(n) ==
  IF n = 0 THEN {<<>>}
  ELSE SheetLists(n - 1)
       \cup {Append(sheets, s) : sheets \in SheetLists(n - 1), s \in SheetNameChoices}

InitSheets ==
  /\ InitRun
  /\ pads_year = TRUE
  /\ \E reference_sheets \in SheetLists(MaxSheets),
        target_sheets \in SheetLists(MaxSheets),
        threshold \in SheetThresholds :
       call = [op |-> "match_sheets",
               args |-> <<reference_sheets, target_sheets, threshold>>,
               done |-> FALSE]
  /\ returned = <<>>

MatchSheets ==
  /\ call.op = "match_sheets"
  /\ ~call.done
  /\ returned' = match_sheets(call.args[1], call.args[2], call.args[3])
  /\ call' = [call EXCEPT !.done = TRUE]
  /\ UNCHANGED <<runVars, pads_year, threads>>

NextSheets == MatchSheets

SpecSheets == InitSheets /\ [][NextSheets]_vars

\* target is the best candidate of ref_sheet at or above the threshold: it
\* scores above 0 and at least the threshold, no candidate scores higher,
\* and it is the first candidate with its score
BestCandidate(ref_sheet, target_sheets, threshold, j) ==
  /\ RatGt(Similarity(ref_sheet, target_sheets[j]), Zero)
  /\ RatGe(Similarity(ref_sheet, target_sheets[j]), threshold)
  /\ \A k \in 1..Len(target_sheets) :
       RatGe(Similarity(ref_sheet, target_sheets[j]), Similarity(ref_sheet, target_sheets[k]))
  /\ \A k \in 1..(j - 1) :
       ~RatEq(Similarity(ref_sheet, target_sheets[k]), Similarity(ref_sheet, target_sheets[j]))

\* C14: match_sheets decides each reference sheet on its own: a reference
\* sheet is in the mapping exactly if it has a best candidate at or above
\* the threshold, and is mapped to that candidate whatever the other
\* reference sheets are mapped to; so two distinct reference sheets with the
\* same best candidate are both mapped to it.
C14_SheetsNotConsumed ==
  (call.op = "match_sheets" /\ call.done) =>
    LET reference_sheets == call.args[1]
        target_sheets == call.args[2]
        threshold == call.args[3]
    IN  /\ \A i \in 1..Len(reference_sheets) :
             \A j \in 1..Len(target_sheets) :
               BestCandidate(reference_sheets[i], target_sheets, threshold, j) =>
                 /\ DictHas(returned, reference_sheets[i])
                 /\ DictGet(returned, reference_sheets[i]) = target_sheets[j]
        /\ \A ref_sheet \in DictKeys(returned) :
             \E i \in 1..Len(reference_sheets), j \in 1..Len(target_sheets) :
               /\ reference_sheets[i] = ref_sheet
               /\ BestCandidate(ref_sheet, target_sheets, threshold, j)

\* match_sheets has mapped two distinct reference sheets to the same
\* candidate sheet, the best candidate of both
C14_Witness ==
  /\ call.op = "match_sheets"
  /\ call.done
  /\ \E a, b \in DictKeys(returned) :
       /\ a # b
       /\ DictGet(returned, a) = DictGet(returned, b)
       /\ \E j \in 1..Len(call.args[2]) :
            /\ BestCandidate(a, call.args[2], call.args[3], j)
            /\ BestCandidate(b, call.args[2], call.args[3], j)

-----------------------------------------------------------------------------
(* calculate_similarity on its own: every pair of strings of at most        *)
(* MaxLen characters of NameChars                                          *)

MaxLen == 2

NameChars == {"a", "B", " ", "-", "ko_i"}

\* the strings of at most n characters
RECURSIVE Strings(_)
Strings(n) ==
  IF n = 0 THEN {<<>>}
  ELSE Strings(n - 1) \cup {Append(s, ch) : s \in Strings(n - 1), ch \in NameChars}

InitSimilarity ==
  /\ InitRun
  /\ pads_year = TRUE
  /\ \E str1 \in Strings(MaxLen), str2 \in Strings(MaxLen) :
       call = [op |-> "calculate_similarity", args |-> <<str1, str2>>, done |-> FALSE]
  /\ returned = <<>>

CalculateSimilarity ==
  /\ call.op = "calculate_similarity"
  /\ ~call.done
  /\ returned' = calculate_similarity(call.args[1], call.args[2])
  /\ call' = [call EXCEPT !.done = TRUE]
  /\ UNCHANGED <<runVars, pads_year, threads>>

NextSimilarity == CalculateSimilarity

SpecSimilarity == InitSimilarity /\ [][NextSimilarity]_vars

\* C20: calculate_similarity(a, a) is 1.0 for every non-empty string a, and
\* calculate_similarity is 0 whenever one of its arguments is the empty
\* string.
C20_SimilarityOfEqualAndEmpty ==
  (call.op = "calculate_similarity" /\ call.done) =>
    /\ (call.args[1] = call.args[2] /\ call.args[1] # <<>>) => RatEq(returned, One)
    /\ (call.args[1] = <<>> \/ call.args[2] = <<>>) => RatEq(returned, Zero)

\* calculate_similarity has returned 1.0 for a string of separators only
\* compared with itself
C20_Witness ==
  /\ call.op = "calculate_similarity"
  /\ call.done
  /\ call.args = <<<<" ", "-">>, <<" ", "-">>>>
  /\ RatEq(returned, One)

-----------------------------------------------------------------------------
(* _normalize_numbers and _normalize_dates on their own: columns of one     *)
(* cell over every number string of at most MaxNumLen characters and over   *)
(* the dates of Dates written in every format, columns of at most MaxCells  *)
(* cells of several kinds, and every standard _analyze_number_format and    *)
(* _analyze_date_format can give                                            *)

MaxNumLen == 3
MaxCells == 3

NumberChars == {"1", "5", "0", ",", ".", "-", " ", "a"}

\* the strings of at most n characters of NumberChars
RECURSIVE NumberStrings(_)
NumberStrings(n) ==
  IF n = 0 THEN {<<>>}
  ELSE NumberStrings(n - 1)
       \cup {Append(s, ch) : s \in NumberStrings(n - 1), ch \in NumberChars}

s_1_234_567 == <<"1", ",", "2", "3", "4", ".", "5", "6", "7">>
s_1234_57 == <<"1", "2", "3", "4", ".", "5", "7">>
s_abc == <<"a", "b", "c">>

LongNumberStrings ==
  {s_1_234_567, s_1234_57, <<"2", ".", "6", "7", "5">>, <<"0", ".", "1", "2", "5">>,
   <<"1", ",", "0", "0", "0">>, <<"-", "1", "2", ".", "5", "0">>, <<"+", "5">>,
   <<"9", "9", ".", "9", "9", "5">>, <<"1", "2", ".", "5", "a">>}

NumberCells ==
  {Str(s) : s \in NumberStrings(MaxNumLen) \cup LongNumberStrings}
  \cup {NaN, IntCell(5), IntCell(-3), HugeInt, Float(Decimal(FALSE, 25, 1)),
        Float(Decimal(TRUE, 1234567, 3)), Datetime(2024, 3, 5)}

NumberContextCells ==
  {Str(s_1_234_567), Str(s_abc), Str(<<"5">>), Str(<<"1", ".", "5">>), NaN, IntCell(5),
   HugeInt}

DecimalPlaces == {0, 1, 2}

Dates == {Date(2024, 3, 5), Date(1999, 12, 31), Date(2000, 2, 29)}

s_2024_03_05 == strftime(Date(2024, 3, 5), f_Ymd_dash)
s_05_03_2024 == strftime(Date(2024, 3, 5), f_dmY_slash)
s_1899_12_31 == strftime(Date(1899, 12, 31), f_Ymd_dash)
s_0005_03_05 == <<"0", "0", "0", "5", "-", "0", "3", "-", "0", "5">>
s_2024_02_30 == <<"2", "0", "2", "4", "-", "0", "2", "-", "3", "0">>

DateStrings ==
  {strftime(d, date_formats[i]) : d \in Dates, i \in 1..Len(date_formats)}
  \cup {<<" ">> \o s_2024_03_05 \o <<" ">>,
        <<"2", "0", "2", "4", "-", "3", "-", "5">>, <<"3", "/", "5", "/", "2", "0", "2", "4">>,
        <<"2", "0", "2", "4", " ", "3", " ", "5">>, <<"5", " ", "3", " ", "2", "4">>,
        s_2024_02_30, <<"2", "0", "2", "4", "-", "1", "3", "-", "4", "5">>,
        <<"2", "0", "2", "3", "-", "0", "2", "-", "2", "9">>,
        s_0005_03_05, <<"0", "9", "9", "9", "-", "1", "2", "-", "3", "1">>,
        s_abc, <<>>, <<" ", " ">>, <<"1", " ", "2">>}

SerialNumbers == {-1, 0, 1, 2, 59, 60, 61, 45000, 2958465, 2958466}

DateCells ==
  {Str(s) : s \in DateStrings}
  \cup {IntCell(n) : n \in SerialNumbers}
  \cup {Float(Decimal(FALSE, 5, 1)), Float(Decimal(FALSE, 15, 1)),
        Float(Decimal(FALSE, 4500025, 2)), Float(Decimal(FALSE, 29584655, 1)),
        NaN, HugeInt, Datetime(2024, 3, 5)}

DateContextCells ==
  {Str(s_2024_03_05), Str(s_05_03_2024), Str(s_abc), Str(s_2024_02_30), NaN,
   IntCell(45000), IntCell(0)}

\* the columns of at most n cells
RECURSIVE Columns(_, _)
Columns(cells, n) ==
  IF n = 0 THEN {<<>>}
  ELSE Columns(cells, n - 1)
       \cup {Append(series, cell) : series \in Columns(cells, n - 1), cell \in cells}

InitColumn ==
  /\ InitRun
  /\ pads_year \in BOOLEAN
  /\ \/ \E series \in {<<cell>> : cell \in NumberCells}
                      \cup Columns(NumberContextCells, MaxCells),
           decimal_places \in DecimalPlaces :
          call = [op |-> "_normalize_numbers",
                  args |-> <<series, [type |-> "number", decimal_places |-> decimal_places]>>,
                  done |-> FALSE]
     \/ \E series \in {<<cell>> : cell \in DateCells}
                      \cup Columns(DateContextCells, MaxCells),
           f \in 1..Len(common_formats) :
          call = [op |-> "_normalize_dates",
                  args |-> <<series, [type |-> "date", format |-> common_formats[f]]>>,
                  done |-> FALSE]
  /\ returned = <<>>

\* the column, file and sheet the records name
ColumnArgs == [column_name |-> s_YeonBong, file_name |-> <<"c", "1">>, sheet_name |-> s_Employees]

NormalizeNumbers ==
  /\ call.op = "_normalize_numbers"
  /\ ~call.done
  /\ returned' = _normalize_numbers(call.args[1], call.args[2], ColumnArgs.column_name,
                                    ColumnArgs.file_name, ColumnArgs.sheet_name,
                                    Normalizer(<<>>, <<>>))
  /\ call' = [call EXCEPT !.done = TRUE]
  /\ UNCHANGED <<runVars, pads_year, threads>>

NormalizeDates ==
  /\ call.op = "_normalize_dates"
  /\ ~call.done
  /\ returned' = _normalize_dates(call.args[1], call.args[2], ColumnArgs.column_name,
                                  ColumnArgs.file_name, ColumnArgs.sheet_name,
                                  Normalizer(<<>>, <<>>))
  /\ call' = [call EXCEPT !.done = TRUE]
  /\ UNCHANGED <<runVars, pads_year, threads>>

NextColumn == NormalizeNumbers \/ NormalizeDates

SpecColumn == InitColumn /\ [][NextColumn]_vars

\* the records appended for row idx (from 0)
RecordsOfRow(logs, idx) == SelectSeq(logs, LAMBDA log : log.row_index = idx)

\* the one record of a conversion
RecordOf(idx, change_type, original_value, new_value) ==
  ChangeRecord(ColumnArgs.file_name, ColumnArgs.sheet_name, idx, ColumnArgs.column_name,
               change_type, original_value, new_value)

\* the call of _normalize_dates has returned
DatesDone == call.op = "_normalize_dates" /\ call.done
\* the call of _normalize_numbers has returned
NumbersDone == call.op = "_normalize_numbers" /\ call.done

\* date_str reads as a date in fmt and is that date written with four digits
\* of year and two of month and day
WrittenIn(parsed, date_str, fmt) ==
  IF IsError(parsed) THEN FALSE ELSE Formatted(parsed, fmt, TRUE) = date_str
InTargetPattern(date_str, fmt) == WrittenIn(strptime(date_str, fmt), date_str, fmt)

\* _normalize_dates of a column by a normalizer that has recorded nothing
NormalizedAgain(series, standard) ==
  _normalize_dates(series, standard, ColumnArgs.column_name, ColumnArgs.file_name,
                   ColumnArgs.sheet_name, Normalizer(<<>>, <<>>))

\* C15: date normalization leaves every string cell that is written exactly
\* in the target pattern as it is and appends no record for it, and
\* normalizing the column it returns once more appends no record.
C15_CanonicalDatesUnchanged ==
  DatesDone =>
    /\ \A i \in 1..Len(call.args[1]) :
         (call.args[1][i].k = "str"
          /\ InTargetPattern(call.args[1][i].v, call.args[2].format)) =>
           /\ returned.series[i] = call.args[1][i]
           /\ RecordsOfRow(returned.normalizer.change_logs, i - 1) = <<>>
    /\ NormalizedAgain(returned.series, call.args[2]).normalizer.change_logs = <<>>

\* the number a Decimal stands for, in units of 10 ** -places
Scaled(x, places) == (IF x.neg THEN -1 ELSE 1) * x.digits * Pow10(places - x.places)

\* value is a multiple of 10 ** -decimal_places and no other multiple is
\* nearer to x
NearestMultiple(value, x, decimal_places) ==
  /\ value.places <= decimal_places
  /\ 2 * Scaled(value, Max(x.places, decimal_places))
       <= 2 * Scaled(x, Max(x.places, decimal_places)) + Pow10(Max(x.places, decimal_places) - decimal_places)
  /\ 2 * Scaled(value, Max(x.places, decimal_places))
       >= 2 * Scaled(x, Max(x.places, decimal_places)) - Pow10(Max(x.places, decimal_places) - decimal_places)

\* the string reads as a number once its commas are removed
WithoutSeparators(s) == RemoveChars(s, {","})
ParsesAsNumber(s) == ~IsError(float(WithoutSeparators(s)))

\* row i holds x rounded, and the log holds one record of it if the string
\* of the cell changed and none if it did not
RoundedAndRecorded(i, cell, x, result, logs, decimal_places) ==
  /\ result.k = "float"
  /\ NearestMultiple(result.v, x, decimal_places)
  /\ RecordsOfRow(logs, i - 1) =
       IF str(cell) # str(result)
       THEN <<RecordOf(i - 1, "number_format", cell, result)>>
       ELSE <<>>

\* C16: number normalization turns every string cell that reads as a number
\* without its thousands separators into that number rounded to the
\* profile's decimal places, and appends exactly one number_format record
\* for the cell (the input, the rounded number, the cell's row) if the
\* written value changed and none if it did not.
C16_NumberStringsRounded ==
  NumbersDone =>
    \A i \in 1..Len(call.args[1]) :
      (call.args[1][i].k = "str" /\ ParsesAsNumber(call.args[1][i].v)) =>
        /\ ~IsError(returned)
        /\ RoundedAndRecorded(i, call.args[1][i], float(WithoutSeparators(call.args[1][i].v)),
                              returned.series[i], returned.normalizer.change_logs,
                              call.args[2].decimal_places)

\* the conversion of the cell fails: it raises ValueError or leaves
\* converted_value None
CannotConvert(cell, standard) ==
  /\ ~isna(cell)
  /\ IsError(IF standard.type = "number" THEN ConvertNumber(cell)
             ELSE ConvertDate(cell, standard.format))

\* the column without its cell i (from 1)
Without(series, i) == SubSeq(series, 1, i - 1) \o SubSeq(series, i + 1, Len(series))

\* the records of the rows other than row idx (from 0), the rows numbered as
\* in the column without row idx
Renumbered(logs, idx) ==
  [k \in 1..Len(logs) |->
     IF logs[k].row_index > idx THEN [logs[k] EXCEPT !.row_index = @ - 1] ELSE logs[k]]
RecordsWithoutRow(logs, idx) ==
  Renumbered(SelectSeq(logs, LAMBDA log : log.row_index # idx), idx)

\* the normalization of a column by a normalizer that has recorded nothing
NormalizedAlone(series, standard) ==
  IF standard.type = "number"
  THEN _normalize_numbers(series, standard, ColumnArgs.column_name, ColumnArgs.file_name,
                          ColumnArgs.sheet_name, Normalizer(<<>>, <<>>))
  ELSE _normalize_dates(series, standard, ColumnArgs.column_name, ColumnArgs.file_name,
                        ColumnArgs.sheet_name, Normalizer(<<>>, <<>>))

\* apart from row i the column and the log are those of the column without it
AsIfAbsent(full, rest, i) ==
  /\ Without(full.series, i) = rest.series
  /\ RecordsWithoutRow(full.normalizer.change_logs, i - 1) = rest.normalizer.change_logs

\* C17: in a number or date column a cell that cannot be converted keeps its
\* value and gets no record, the normalization returns its column all the
\* same, and the other cells, before and after it, are normalized and
\* recorded as they are in the column without that cell.
C17_FailuresContained ==
  (NumbersDone \/ DatesDone) =>
    /\ ~IsError(returned)
    /\ Len(returned.series) = Len(call.args[1])
    /\ \A i \in 1..Len(call.args[1]) :
         CannotConvert(call.args[1][i], call.args[2]) =>
           /\ returned.series[i] = call.args[1][i]
           /\ RecordsOfRow(returned.normalizer.change_logs, i - 1) = <<>>
           /\ AsIfAbsent(returned, NormalizedAlone(Without(call.args[1], i), call.args[2]), i)

\* the whole days of a numeric cell
WholeDays(cell) ==
  IF cell.k = "int" THEN cell.v ELSE cell.v.digits \div Pow10(cell.v.places)

\* 1 <= n <= 2958465 for the number n of a numeric cell
IsSerial(cell) ==
  \/ cell.k = "int" /\ cell.v >= 1 /\ cell.v <= 2958465
  \/ /\ cell.k = "float"
     /\ ~cell.v.neg
     /\ cell.v.digits >= Pow10(cell.v.places)
     /\ cell.v.digits <= 2958465 * Pow10(cell.v.places)

\* date_str is, in the pattern fmt, the date that lies days days after 1899-12-30
DaysAfterEpoch(parsed, date_str, fmt, days) ==
  /\ ~IsError(parsed)
  /\ Formatted(parsed, fmt, TRUE) = date_str
  /\ _ymd2ord(parsed.year, parsed.month, parsed.day) = _ymd2ord(1899, 12, 30) + days

\* C18: date normalization turns every numeric cell n with 1 <= n <= 2958465
\* into the date n days after 1899-12-30 written in the target pattern (and
\* records the change); a numeric cell outside that range is left as it is
\* and gets no record.
C18_SerialDates ==
  DatesDone =>
    \A i \in 1..Len(call.args[1]) :
      call.args[1][i].k \in {"int", "float", "hugeint"} =>
        IF IsSerial(call.args[1][i])
        THEN /\ returned.series[i].k = "str"
             /\ DaysAfterEpoch(strptime(returned.series[i].v, call.args[2].format),
                               returned.series[i].v, call.args[2].format,
                               WholeDays(call.args[1][i]))
             /\ RecordsOfRow(returned.normalizer.change_logs, i - 1) =
                  <<RecordOf(i - 1, "date_format", call.args[1][i], returned.series[i])>>
        ELSE /\ returned.series[i] = call.args[1][i]
             /\ RecordsOfRow(returned.normalizer.change_logs, i - 1) = <<>>

\* serial 1 gives 1899-12-31
C18_Witness ==
  /\ DatesDone
  /\ call.args[1] = <<IntCell(1)>>
  /\ call.args[2].format = f_Ymd_dash
  /\ returned.series = <<Str(s_1899_12_31)>>
  /\ returned.normalizer.change_logs =
       <<RecordOf(0, "date_format", IntCell(1), Str(s_1899_12_31))>>

-----------------------------------------------------------------------------
(* Header detection on its own: every worksheet of at most MaxGridRows rows *)
(* and MaxGridWidth columns, and every delimited file of at most            *)
(* MaxGridRows rows of at most MaxGridWidth fields                          *)

MaxGridRows == 2
MaxGridWidth == 3

\* the values of a worksheet's cells
SheetCells == {NaN, Str(<<>>), Str(<<" ">>), Str(<<"a">>), IntCell(5)}
\* the fields csv.reader reads
CsvCells == {Str(<<>>), Str(<<" ">>), Str(<<"a">>), Str(<<"b">>)}

\* the rows of exactly n cells
RowsOf(cells, n) == [1..n -> cells]
\* the worksheets: the rows of a worksheet have one width
Worksheets ==
  UNION {[1..h -> RowsOf(SheetCells, w)] : h \in 1..MaxGridRows, w \in 1..MaxGridWidth}
\* the rows of a delimited file: any number of fields
CsvRows == UNION {RowsOf(CsvCells, w) : w \in 0..MaxGridWidth}
CsvFiles == UNION {[1..h -> CsvRows] : h \in 0..MaxGridRows}

InitHeader ==
  /\ InitRun
  /\ pads_year = TRUE
  /\ \/ \E worksheet \in Worksheets :
          call = [op |-> "_analyze_sheet", args |-> <<worksheet>>, done |-> FALSE]
     \/ \E data \in CsvFiles :
          call = [op |-> "_analyze_csv_file", args |-> <<data>>, done |-> FALSE]
  /\ returned = <<>>

AnalyzeSheet ==
  /\ call.op = "_analyze_sheet"
  /\ ~call.done
  /\ returned' = _analyze_sheet(call.args[1])
  /\ call' = [call EXCEPT !.done = TRUE]
  /\ UNCHANGED <<runVars, pads_year, threads>>

AnalyzeCsvFile ==
  /\ call.op = "_analyze_csv_file"
  /\ ~call.done
  /\ returned' = _analyze_csv_file(call.args[1])
  /\ call' = [call EXCEPT !.done = TRUE]
  /\ UNCHANGED <<runVars, pads_year, threads>>

NextHeader == AnalyzeSheet \/ AnalyzeCsvFile

SpecHeader == InitHeader /\ [][NextHeader]_vars

\* an empty cell: a null, or a text cell that is empty or blank
IsEmptyCell(cell) == isna(cell) \/ (cell.k = "str" /\ strip(cell.v) = <<>>)

\* every row of the grid has fewer than two cells that are not empty
FewerThanTwoInEveryRow(grid) ==
  \A r \in 1..Len(grid) :
    Cardinality({c \in 1..Len(grid[r]) : ~IsEmptyCell(grid[r][c])}) < 2

\* C19: for a grid whose rows all have fewer than two non-empty cells
\* header detection finds no header (-1), on the path of the worksheets and
\* on the path of the delimited files.
C19_NoHeaderWithoutTwoCells ==
  (call.done /\ call.op \in {"_analyze_sheet", "_analyze_csv_file"}
   /\ FewerThanTwoInEveryRow(call.args[1])) =>
    returned.header_row = -1

-----------------------------------------------------------------------------
\* the run has not made its last poll of is_cancelled, the one before Save
BeforeLastPoll ==
  pc \in {"Spawned", "Analyze", "Compatibility", "Extract", "ProcessFile", "Combine",
          "ValidateQuality", "Poll"}

\* cancel_merge has been called during the run and before its last poll
CancelRequested == is_cancelled /\ BeforeLastPoll

\* C21: a cancel request is never lost: once cancel_merge has been called
\* after start_merge returned True and before the last poll, also before the
\* thread has begun, the run never saves and never reports success.
C21_CancelNeverLost ==
  [](CancelRequested =>
       [](/\ ~output.written
          /\ SuccessDialogs = <<>>
          /\ pc \notin {"Completed", "CompletedWithWarnings"}))

-----------------------------------------------------------------------------
\* the threads whose run has not reached a terminal state
ActiveThreads == {t \in 1..Len(threads) : threads[t].pc \notin Terminal}

\* C22: at most one merge run is active on the controller: after a
\* start_merge that returned True no further start_merge starts a second
\* background run before the first run has reached a terminal state.
C22_AtMostOneActiveRun == Cardinality(ActiveThreads) <= 1

-----------------------------------------------------------------------------
(* match_sheets and match_columns side by side: every list of at most      *)
(* MaxColumns reference names and of at most MaxColumns candidate names of *)
(* SelectNames, and the thresholds of Thresholds                           *)

\* names with equal scores (name, Name), a synonym of both and a name that
\* scores 0 against them
SelectNames == {s_IReum, s_name, s_Name, s_BuSeo}

\* the lists of at most n names
RECURSIVE SelectLists(_)
SelectLists(n) ==
  IF n = 0 THEN {<<>>}
  ELSE SelectLists(n - 1) \cup {Append(names, c) : names \in SelectLists(n - 1), c \in SelectNames}

InitSelect ==
  /\ InitRun
  /\ pads_year = TRUE
  /\ \E op \in {"match_sheets", "match_columns"},
        references \in SelectLists(MaxColumns),
        targets \in SelectLists(MaxColumns),
        threshold \in Thresholds :
       call = [op |-> op, args |-> <<references, targets, threshold>>, done |-> FALSE]
  /\ returned = <<>>
NextSelect == MatchSheets \/ MatchColumns
SpecSelect == InitSelect /\ [][NextSelect]_vars

\* the candidates that are not consumed
Eligible(targets, consumed) == {j \in 1..Len(targets) : targets[j] \notin consumed}

\* the first, in candidate order, of the eligible candidates with the
\* highest score
FirstBest(ref, targets, eligible) ==
  CHOOSE j \in eligible :
    \A k \in eligible :
      \/ RatGt(Similarity(ref, targets[j]), Similarity(ref, targets[k]))
      \/ RatEq(Similarity(ref, targets[j]), Similarity(ref, targets[k])) /\ j <= k

\* the score meets or exceeds the threshold, and is above 0 where a score
\* of 0 is not to be selected
Reaches(score, threshold, above_zero) ==
  RatGe(score, threshold) /\ (above_zero => RatGt(score, Zero))

\* the mapping with ref mapped to target
Mapped(mapping, ref, target) == {p \in mapping : p[1] # ref} \cup {<<ref, target>>}

\* the mapping and the consumed candidates after one reference identifier
SelectedFor(state, ref, targets, eligible, threshold, consuming, above_zero) ==
  IF eligible # {}
     /\ Reaches(Similarity(ref, targets[FirstBest(ref, targets, eligible)]), threshold, above_zero)
  THEN [mapping |-> Mapped(state.mapping, ref, targets[FirstBest(ref, targets, eligible)]),
        consumed |-> IF consuming
                     THEN state.consumed \cup {targets[FirstBest(ref, targets, eligible)]}
                     ELSE {}]
  ELSE state

\* the selection rule applied to the reference identifiers from i on
RECURSIVE SelectionFrom(_, _, _, _, _, _, _)
SelectionFrom(refs, targets, threshold, consuming, above_zero, i, state) ==
  IF i > Len(refs) THEN state.mapping
  ELSE SelectionFrom(refs, targets, threshold, consuming, above_zero, i + 1,
         SelectedFor(state, refs[i], targets, Eligible(targets, state.consumed),
                     threshold, consuming, above_zero))

\* the mapping the selection rule gives for the call
Selection(above_zero) ==
  SelectionFrom(call.args[1], call.args[2], call.args[3], call.op = "match_columns",
                above_zero, 1, [mapping |-> {}, consumed |-> {}])

\* the pairs of the mapping returned
ReturnedPairs == {<<returned[k][1], returned[k][2]>> : k \in 1..Len(returned)}

\* C23 as written: each reference identifier, in input order, is mapped to
\* the first of the eligible candidates with the highest score if that
\* score meets or exceeds the threshold, and is not mapped otherwise, for
\* every threshold from 0 to 1.
C23_SelectionRule ==
  (call.done /\ call.op \in {"match_sheets", "match_columns"}) =>
    ReturnedPairs = Selection(FALSE)

\* C23 amended: each reference identifier, in input order, is mapped to the
\* first of the eligible candidates with the highest score if that score is
\* above 0 and meets or exceeds the threshold, and is not mapped otherwise.
C23_SelectionRuleAboveZero ==
  (call.done /\ call.op \in {"match_sheets", "match_columns"}) =>
    ReturnedPairs = Selection(TRUE)

\* match_columns with threshold 0 has left a reference column unmapped whose
\* only eligible candidate scores 0, and mapped another to the first of two
\* candidates with equal scores
C23_Witness ==
  /\ call.done
  /\ call.op = "match_columns"
  /\ call.args[3] = Zero
  /\ \E i \in 1..Len(call.args[1]) :
       /\ ~DictHas(returned, call.args[1][i])
       /\ \E j \in 1..Len(call.args[2]) : RatEq(Similarity(call.args[1][i], call.args[2][j]), Zero)
  /\ ReturnedPairs # {}

-----------------------------------------------------------------------------
(* _analyze_text_format and _analyze_date_format on the samples of a       *)
(* reference column                                                        *)

MaxSamples == 3

s_AB == <<"A", "B">>
s_ab == <<"a", "b">>
s_Ab == <<"A", "b">>
s_aB == <<"a", "B">>
s_12 == <<"1", "2">>
s_A_b == <<"A", " ", " ", "b">>
\* the samples of a text column: upper-case, lower-case and title-case
\* strings, strings of mixed case and without a cased character, and an int
TextSamples ==
  {Str(s_AB), Str(s_HR), Str(s_ab), Str(s_Ab), Str(s_aB), Str(s_12), Str(s_A_b), IntCell(5)}

s_2024_03_05_slash == strftime(Date(2024, 3, 5), f_Ymd_slash)
s_2024_03_05_dot == strftime(Date(2024, 3, 5), f_Ymd_dot)
s_01_02_2024 == strftime(Date(2024, 1, 2), f_mdY_slash)
s_13_01_2024 == strftime(Date(2024, 1, 13), f_dmY_slash)
\* the samples of a date column: strings in each canonical pattern, the
\* string 01/02/2024 that two patterns read, a padded string, a native
\* date and an int
DateSamples ==
  {Str(s_2024_03_05), Str(s_2024_03_05_slash), Str(s_2024_03_05_dot),
   Str(s_01_02_2024), Str(s_13_01_2024),
   Str(<<" ">> \o s_2024_03_05_dot \o <<" ">>), Datetime(2024, 3, 5), IntCell(45000)}

SamplesOf(values) == UNION {[1..n -> values] : n \in 0..MaxSamples}

InitFormat ==
  /\ InitRun
  /\ pads_year = TRUE
  /\ \/ \E sample_data \in SamplesOf(TextSamples) :
          call = [op |-> "_analyze_text_format", args |-> <<sample_data>>, done |-> FALSE]
     \/ \E sample_data \in SamplesOf(DateSamples) :
          call = [op |-> "_analyze_date_format", args |-> <<sample_data>>, done |-> FALSE]
  /\ returned = <<>>

AnalyzeTextFormat ==
  /\ call.op = "_analyze_text_format"
  /\ ~call.done
  /\ returned' = _analyze_text_format(call.args[1])
  /\ call' = [call EXCEPT !.done = TRUE]
  /\ UNCHANGED <<runVars, pads_year, threads>>

AnalyzeDateFormat ==
  /\ call.op = "_analyze_date_format"
  /\ ~call.done
  /\ returned' = _analyze_date_format(call.args[1])
  /\ call' = [call EXCEPT !.done = TRUE]
  /\ UNCHANGED <<runVars, pads_year, threads>>

NextFormat == AnalyzeTextFormat \/ AnalyzeDateFormat

SpecFormat == InitFormat /\ [][NextFormat]_vars

\* the text samples among the samples
TextOf(sample_data) == SelectSeq(sample_data, LAMBDA value : value.k = "str")

\* the case of a string: upper-case, else lower-case, else title-case
CaseOf(s) ==
  IF isupper(s) THEN "upper"
  ELSE IF islower(s) THEN "lower"
  ELSE IF istitle(s) THEN "title"
  ELSE "mixed"

\* every text sample has the case, and there is a text sample
Unanimous(sample_data, case) ==
  /\ TextOf(sample_data) # <<>>
  /\ \A i \in 1..Len(TextOf(sample_data)) : CaseOf(TextOf(sample_data)[i].v) = case

\* C24: the case rule of the text profile is upper (lower, title) exactly
\* when every text sample is upper-case (lower-case, title-case), for any
\* number of samples; if the samples disagree there is no case rule.
C24_UnanimousCaseRule ==
  (call.done /\ call.op = "_analyze_text_format") =>
    /\ \A case \in {"upper", "lower", "title"} :
         returned.case = case <=> Unanimous(call.args[1], case)
    /\ returned.case \in {"upper", "lower", "title", "none"}

\* the canonical pattern reads the text sample
Matches(value, f) == value.k = "str" /\ ~IsError(strptime(strip(value.v), common_formats[f]))

\* the number of samples a pattern is matched by: a text sample counts for
\* every pattern that reads it, a native date for YYYY-MM-DD
MatchCount(sample_data, f) ==
  Cardinality({i \in 1..Len(sample_data) :
                 \/ Matches(sample_data[i], f)
                 \/ sample_data[i].k = "datetime" /\ f = 1})

\* the number of samples counted for a pattern: a text sample counts for the
\* first pattern that reads it, a native date for YYYY-MM-DD
FirstMatchCount(sample_data, f) ==
  Cardinality({i \in 1..Len(sample_data) :
                 \/ Matches(sample_data[i], f) /\ \A g \in 1..(f - 1) : ~Matches(sample_data[i], g)
                 \/ sample_data[i].k = "datetime" /\ f = 1})

\* f has the highest count, and no earlier pattern has the same count
EarliestHighest(counts, f) ==
  \A g \in 1..Len(common_formats) : counts[f] > counts[g] \/ (counts[f] = counts[g] /\ f <= g)

\* C25 as written: the target pattern is the canonical pattern matched by
\* the largest number of samples, the earliest of them on a tie, native
\* dates counting for YYYY-MM-DD; without a match it is YYYY-MM-DD.
C25_MostMatchedPattern ==
  (call.done /\ call.op = "_analyze_date_format") =>
    LET counts == [g \in 1..Len(common_formats) |-> MatchCount(call.args[1], g)]
    IN  \E f \in 1..Len(common_formats) :
          /\ returned.format = common_formats[f]
          /\ EarliestHighest(counts, f)

\* C25 amended: each text sample counts for the first canonical pattern
\* that reads it; the target pattern is the pattern with the largest count,
\* the earliest of them on a tie, native dates counting for YYYY-MM-DD;
\* without a counted sample it is YYYY-MM-DD.
C25_MostCountedPattern ==
  (call.done /\ call.op = "_analyze_date_format") =>
    LET counts == [g \in 1..Len(common_formats) |-> FirstMatchCount(call.args[1], g)]
    IN  \E f \in 1..Len(common_formats) :
          /\ returned.format = common_formats[f]
          /\ EarliestHighest(counts, f)
          /\ (\A g \in 1..Len(common_formats) : counts[g] = 0) => f = 1

\* two patterns have the same highest count and the earlier one, which is
\* not YYYY-MM-DD, is the target
C25_Witness ==
  /\ call.done
  /\ call.op = "_analyze_date_format"
  /\ returned.format = f_Ymd_slash
  /\ FirstMatchCount(call.args[1], 2) = 1
  /\ FirstMatchCount(call.args[1], 5) = 1

-----------------------------------------------------------------------------
(* calculate_similarity on phrases: every pair of phrases of at most       *)
(* MaxWords words of PhraseWords, joined by a separator                    *)

MaxWords == 2

PhraseWords == {<<"a">>, <<"B">>, <<"ko_i">>}
PhraseSeparators == {<<" ">>}

\* the phrases of at most n words
RECURSIVE Phrases(_)
Phrases(n) ==
  IF n = 0 THEN {<<>>}
  ELSE Phrases(n - 1)
       \cup PhraseWords
       \cup {p \o sep \o w : p \in Phrases(n - 1) \ {<<>>}, sep \in PhraseSeparators, w \in PhraseWords}

InitPhrases ==
  /\ InitRun
  /\ pads_year = TRUE
  /\ \E str1 \in Phrases(MaxWords), str2 \in Phrases(MaxWords) :
       call = [op |-> "calculate_similarity", args |-> <<str1, str2>>, done |-> FALSE]
  /\ returned = <<>>

NextPhrases == CalculateSimilarity

SpecPhrases == InitPhrases /\ [][NextPhrases]_vars

\* the call is scored by the fallback rule: the strings are not empty, are
\* not equal after normalization, are not synonyms, neither contains the
\* other, and both have word tokens
ScoredByFallback(str1, str2) ==
  /\ str1 # <<>> /\ str2 # <<>>
  /\ normalize_string(str1) # normalize_string(str2)
  /\ RatEq(_check_synonyms(str1, str2), Zero)
  /\ ~Contains(normalize_string(str2), normalize_string(str1))
  /\ ~Contains(normalize_string(str1), normalize_string(str2))
  /\ Words(lower(str1)) # {} /\ Words(lower(str2)) # {}

\* 0.7 x ratio + 0.3 x overlap
WeightedSum(ratio, overlap) ==
  Rat(7 * ratio[1] * overlap[2] + 3 * overlap[1] * ratio[2], 10 * ratio[2] * overlap[2])

\* the sequence-similarity ratio of the normalized strings of the call
RatioOfCall == SequenceRatio(normalize_string(call.args[1]), normalize_string(call.args[2]))
\* the word-token sets of the strings of the call
W1 == Words(lower(call.args[1]))
W2 == Words(lower(call.args[2]))

InUnitInterval(x) == RatGe(x, Zero) /\ RatGe(One, x)

\* C26 as written: under the fallback rule the result is 0.7 x sequence
\* ratio + 0.3 x |W1 intersect W2| / |W1 union W2|, and lies in [0,1].
C26_FallbackUsesJaccard ==
  (call.done /\ call.op = "calculate_similarity" /\ ScoredByFallback(call.args[1], call.args[2])) =>
    /\ RatEq(returned, WeightedSum(RatioOfCall, Rat(Cardinality(W1 \cap W2), Cardinality(W1 \cup W2))))
    /\ InUnitInterval(returned)

\* the larger of the sizes of the two word-token sets
LargerSize == IF Cardinality(W1) >= Cardinality(W2) THEN Cardinality(W1) ELSE Cardinality(W2)

\* C26 amended: under the fallback rule the result is 0.7 x sequence ratio
\* + 0.3 x |W1 intersect W2| / max(|W1|, |W2|), and lies in [0,1].
C26_FallbackUsesLargerSet ==
  (call.done /\ call.op = "calculate_similarity" /\ ScoredByFallback(call.args[1], call.args[2])) =>
    /\ RatEq(returned, WeightedSum(RatioOfCall, Rat(Cardinality(W1 \cap W2), LargerSize)))
    /\ InUnitInterval(returned)

\* the fallback rule has scored two phrases that share one of two words
\* each: three words in the union, two in the larger set
C26_Witness ==
  /\ call.done
  /\ call.op = "calculate_similarity"
  /\ ScoredByFallback(call.args[1], call.args[2])
  /\ Cardinality(W1 \cap W2) = 1
  /\ Cardinality(W1 \cup W2) = 3
  /\ LargerSize = 2
  /\ RatGt(returned, Zero)

-----------------------------------------------------------------------------
(* _analyze_data_types on its own: grids of a header row and one column    *)
(* made of a run of empty cells, a run of text or date strings, a run of   *)
(* empty cells and a run of numbers or dates, each of at most MaxRun cells *)

MaxRun == 8

\* n cells of one value
Run(value, n) == [i \in 1..n |-> value]

FirstRunValues == {Str(s_abc), Str(s_2024_03_05)}
LastRunValues == {IntCell(1), Str(s_1_234_567), Datetime(2024, 3, 5)}

ColumnsOfRuns ==
  {Run(NaN, e1) \o Run(v1, n1) \o Run(NaN, e2) \o Run(v2, n2) :
     e1 \in 0..MaxRun, n1 \in 0..MaxRun, e2 \in 0..MaxRun, n2 \in 0..MaxRun,
     v1 \in FirstRunValues, v2 \in LastRunValues}

\* the grid of a header row and the rows of the column
GridOf(column) == <<<<Str(s_name)>>>> \o [r \in 1..Len(column) |-> <<column[r]>>]

InitTypes ==
  /\ InitRun
  /\ pads_year = TRUE
  /\ \E column \in ColumnsOfRuns :
       call = [op |-> "_analyze_data_types", args |-> <<GridOf(column), 0, <<s_name>>>>,
               done |-> FALSE]
  /\ returned = <<>>

AnalyzeDataTypes ==
  /\ call.op = "_analyze_data_types"
  /\ ~call.done
  /\ returned' = _analyze_data_types(call.args[1], call.args[2], call.args[3])
  /\ call' = [call EXCEPT !.done = TRUE]
  /\ UNCHANGED <<runVars, pads_year, threads>>

NextTypes == AnalyzeDataTypes

SpecTypes == InitTypes /\ [][NextTypes]_vars

\* the non-empty values of the first column below the header row of the call
NonEmptyBelowHeader ==
  LET below == SubSeq(call.args[1], call.args[2] + 2, Len(call.args[1]))
  IN  SelectSeq([r \in 1..Len(below) |-> below[r][1]], notna)

\* the first ten of them
FirstTenNonEmpty == SubSeq(NonEmptyBelowHeader, 1, Min(10, Len(NonEmptyBelowHeader)))

\* C27: the type of a column is inferred from the first 10 non-empty values
\* below the header row: the sample holds min(10, number of non-empty
\* values) values however many empty cells lie between them.
C27_SampleOfTenNonEmpty ==
  (call.done /\ call.op = "_analyze_data_types") =>
    /\ Len(SampleValues(call.args[1], call.args[2] + 1, 0)) = Min(10, Len(NonEmptyBelowHeader))
    /\ DictGet(returned, s_name) =
         IF FirstTenNonEmpty = <<>> THEN "text" ELSE _infer_data_type(FirstTenNonEmpty)

-----------------------------------------------------------------------------
(* _extract_format_standards on its own: reference files of one sheet      *)
(* whose columns were inferred as number, date or text, and whose data     *)
(* can or cannot be read                                                   *)

ColumnTypes == {"number", "date", "text"}

\* the columns of the reference sheet and, per column, the cells of its rows
TypedColumnLists == {<<s_IReum>>, <<s_YeonBong>>, <<s_IReum, s_YeonBong>>}
TypedCells == {Str(s_KIM), Str(s_1_234_567), Str(s_2024_03_05_slash), IntCell(1)}

\* the sheets: every assignment of types to the columns, no row or one row
TypedSheets ==
  {[Sheet(s_Sheet1, columns, rows) EXCEPT
      !.data_types = [c \in 1..Len(columns) |-> <<columns[c], types[c]>>]] :
     columns \in TypedColumnLists,
     types \in [1..2 -> ColumnTypes],
     rows \in {<<>>} \cup {<<[c \in 1..2 |-> cell]>> : cell \in TypedCells}}

InitStandards ==
  /\ InitRun
  /\ pads_year = TRUE
  /\ \E sheet \in TypedSheets, data_error \in BOOLEAN :
       call = [op |-> "_extract_format_standards",
               args |-> <<File("r1", FALSE, data_error,
                               <<[sheet EXCEPT !.rows = [r \in 1..Len(sheet.rows) |->
                                     SubSeq(sheet.rows[r], 1, Len(sheet.columns))]]>>)>>,
               done |-> FALSE]
  /\ returned = <<>>

ExtractStandards ==
  /\ call.op = "_extract_format_standards"
  /\ ~call.done
  /\ returned' = _extract_format_standards(call.args[1])
  /\ call' = [call EXCEPT !.done = TRUE]
  /\ UNCHANGED <<runVars, pads_year, threads>>

NextStandards == ExtractStandards

SpecStandards == InitStandards /\ [][NextStandards]_vars

\* extraction has thrown for the sheets of the reference file of the call
ExtractionThrew == call.done /\ call.op = "_extract_format_standards" /\ call.args[1].data_error

\* every sheet of the reference file has standards for exactly its columns,
\* and the standard of a column is the profile given for it
FallbackProfiles(profile(_, _)) ==
  \A i \in 1..Len(call.args[1].sheets) :
    LET sheet == call.args[1].sheets[i]
    IN  /\ DictHas(returned, sheet.name)
        /\ Len(DictGet(returned, sheet.name)) = Len(sheet.columns)
        /\ \A c \in 1..Len(sheet.columns) :
             /\ DictHas(DictGet(returned, sheet.name), sheet.columns[c])
             /\ DictGet(DictGet(returned, sheet.name), sheet.columns[c])
                  = profile(sheet, sheet.columns[c])

\* C28 as written: if the extraction throws, every column of the sheet gets
\* the profile {type: text} without sub-rules, whatever type was inferred.
C28_FallbackIsText ==
  ExtractionThrew => FallbackProfiles(LAMBDA sheet, column : [type |-> "text"])

\* C28 amended: if the extraction throws, every column of the sheet gets the
\* profile {type: T} without sub-rules, T being the type inferred for it.
C28_FallbackIsInferredType ==
  ExtractionThrew =>
    FallbackProfiles(LAMBDA sheet, column : [type |-> DictGet(sheet.data_types, column)])

\* the extraction has thrown for a sheet with a number column and a date
\* column, and the fallback profiles are in place
C28_Witness ==
  /\ ExtractionThrew
  /\ returned # <<>>
  /\ call.args[1].sheets[1].data_types = <<<<s_IReum, "number">>, <<s_YeonBong, "date">>>>
  /\ DictGet(returned, s_Sheet1) = <<<<s_IReum, [type |-> "number"]>>, <<s_YeonBong, [type |-> "date"]>>>>

\* the runs of the entries of the error log and of the change-record log
LoggedRuns == RunsOf(change_logs) \cup RunsOf(normalizer.change_logs)

\* the run holds entries of itself only: the logs when it starts, its
\* completion report and its annotations
OwnEntriesOnly(t) ==
  /\ threads[t].pc = "Analyze" => LoggedRuns \subseteq {t}
  /\ threads[t].report \subseteq {t}
  /\ threads[t].notes \subseteq {t}

\* the runs follow one another: no two threads are in a run at once
RunsInSequence ==
  \A t, u \in 1..Len(threads) :
    (threads[t].pc \notin Terminal /\ threads[u].pc \notin Terminal) => t = u

\* C29: in every sequence of runs on one controller, when a run starts the
\* error log and the change-record log hold nothing of an earlier run, and
\* the completion report and the annotations of a run hold entries of that
\* run only.
C29_RunsIsolated ==
  []RunsInSequence => [](\A t \in 1..Len(threads) : OwnEntriesOnly(t))

\* the notifications of the run are those of its terminal state: one
\* success message after a save, one error message after a failure, none
\* after a cancellation
OneOutcome ==
  /\ pc \in {"Completed", "CompletedWithWarnings"} =>
       Len(SuccessDialogs) = 1 /\ ErrorDialogs = <<>> /\ output.written
  /\ pc = "Failed" => Len(ErrorDialogs) = 1 /\ SuccessDialogs = <<>>
  /\ pc = "Cancelled" => ErrorDialogs = <<>> /\ SuccessDialogs = <<>>
  /\ pc \notin Terminal => ErrorDialogs = <<>> /\ SuccessDialogs = <<>>

\* the run has ended: start_merge passes its test of is_processing and the
\* interface was told that merging is over
Released == ~is_processing /\ ~ui.is_merging

\* C30: every run started by start_merge eventually reaches exactly one
\* terminal outcome and keeps it; from then on is_processing is false, the
\* interface has been told that merging ended and start_merge is accepted;
\* validation_passed is true only after the quality validation of the run
\* found no issue.
C30_RunEndsOnce ==
  /\ (pc = "Spawned") ~> (pc \in Terminal)
  /\ [](pc \in Terminal => Released)
  /\ []OneOutcome
  /\ [][(pc \in Terminal) => (pc' = pc)]_vars
  /\ [](validation_passed => (InSeq("ValidateQuality", stages) /\ validation_result.success))

\* a run has ended Cancelled after its files were processed, another
\* outcome not having been notified
C30_Witness ==
  /\ pc = "Cancelled"
  /\ InSeq("ProcessFile", stages)
  /\ Released
  /\ ui.dialogs = <<>>
====
